---- MODULE Spec2Model ----
(***************************************************************************)
(* Remote-control session protocol and playback state machine of the IPTV  *)
(* player: the host page (IpTv.jsx), its Player component (Player.jsx)     *)
(* and the controller page (RemotePage in App.jsx), over a PeerLink that   *)
(* carries ordered, reliable messages per connection.                      *)
(*                                                                         *)
(* One action is one callback of the single-threaded runtime together with *)
(* the render and the effects React runs after it.                         *)
(***************************************************************************)
EXTENDS Integers, Sequences, FiniteSets, TLC

\* ------------------------------------------------------------------ bounds
\* connection objects PeerLink creates over a run
MaxConns == 2
\* messages in flight per direction of one connection
MaxQueue == 1
\* changes of the host snapshot over a run
MaxVer == 2
\* media positions 0..MaxTime reported by the video element
MaxTime == 1
\* anonymous loadedmetadata listeners the native path may pile up
MaxListeners == 2
\* play/pause events of the video element waiting to be dispatched
MaxEvents == 2
\* hls.startLoad() calls followed on one engine instance
MaxStartLoads == 2

\* ------------------------------------------------------------- sample data
Controllers == {1, 2}

NoChannel == [url |-> "", name |-> <<>>, group |-> ""]

\* a parsed playlist: three channels with unique urls
Playlist ==
  << [url |-> "a", name |-> <<"A", "x">>, group |-> "G1"],
     [url |-> "b", name |-> <<"B", "x">>, group |-> "G1"],
     [url |-> "c", name |-> <<"a", "B">>, group |-> "G2"] >>

SearchTerms == {<<>>, <<"A">>, <<"x">>}
Categories == {"All", "G1", "G2"}
SessionIds == {"AB12CD"}
\* the values generateSessionId() may return
GeneratedIds == {"AB12CD", "ZZ99ZZ"}
NoError == "none"

\* the sessionId of the route /remote/:sessionId?: absent, the code as the
\* host shows it, or the same code in lower case
RouteIds == {"", "AB12CD", "ab12cd"}
\* what the user may type into the session code field
TypedCodes == {"AB12CD", "ab12cd"}

\* volume is kept in tenths: 10 is 1.0; the inputs go past both ends of [0, 1]
VolumeInputs == {-5, 0, 5, 10, 15}

\* ---------------------------------------------------------------- helpers
ToLower(c) ==
  CASE c = "A" -> "a"
    [] c = "B" -> "b"
    [] OTHER -> c

ToLowerCase(s) == [i \in 1..Len(s) |-> ToLower(s[i])]

\* String.prototype.toUpperCase on a session code
ToUpperCase(code) ==
  CASE code = "ab12cd" -> "AB12CD"
    [] OTHER -> code

\* String.prototype.includes
Includes(s, t) ==
  \E i \in 0..(Len(s) - Len(t)) : \A j \in 1..Len(t) : s[i + j] = t[j]

\* filteredChannels: case-insensitive name match and exact group match
FilteredChannels(chs, search, category) ==
  SelectSeq(chs, LAMBDA ch :
    /\ Includes(ToLowerCase(ch.name), ToLowerCase(search))
    /\ (category = "All" \/ ch.group = category))

\* a getCurrentChannelIndex that takes an absent channel for the first entry
GetCurrentChannelIndexOrFirst(filtered, sel) ==
  IF \E i \in 1..Len(filtered) : filtered[i].url = sel.url
  THEN (CHOOSE i \in 1..Len(filtered) :
          /\ filtered[i].url = sel.url
          /\ \A j \in 1..(i - 1) : filtered[j].url # sel.url) - 1
  ELSE 0

\* Array.prototype.findIndex by url on a list: 0-based, -1 if absent
FindIndexByUrl(list, url) ==
  IF \E i \in 1..Len(list) : list[i].url = url
  THEN (CHOOSE i \in 1..Len(list) :
          /\ list[i].url = url
          /\ \A j \in 1..(i - 1) : list[j].url # url) - 1
  ELSE -1

\* getCurrentChannelIndex: the index of the selected channel's url in the
\* filtered list (both arguments are evaluated once and bound as values)
GetCurrentChannelIndex(filtered, sel) ==
  CHOOSE currentIndex \in
    {FindIndexByUrl(list, url) : list \in {filtered}, url \in {sel.url}} : TRUE

\* a hasNextChannel that counts the last entry in
HasNextChannelInclusive(filtered, sel) ==
  LET currentIndex == GetCurrentChannelIndex(filtered, sel)
  IN  currentIndex >= 0 /\ currentIndex < Len(filtered)

HasNextChannel(filtered, sel) ==
  LET currentIndex == GetCurrentChannelIndex(filtered, sel)
  IN  currentIndex >= 0 /\ currentIndex < Len(filtered) - 1

HasPrevChannel(filtered, sel) ==
  GetCurrentChannelIndex(filtered, sel) > 0

\* a handleNextChannel that wraps around from the last entry to the first
HandleNextChannelWrapping(filtered, sel) ==
  LET currentIndex == GetCurrentChannelIndex(filtered, sel)
  IN  IF Len(filtered) = 0 THEN sel
      ELSE IF currentIndex >= 0
           THEN filtered[((currentIndex + 1) % Len(filtered)) + 1]
           ELSE sel

\* handleNextChannel: the value selectedChannel is set to (sel when nothing is set)
HandleNextChannel(filtered, sel) ==
  LET currentIndex == GetCurrentChannelIndex(filtered, sel)
  IN  IF Len(filtered) = 0 THEN sel
      ELSE IF currentIndex >= 0 /\ currentIndex < Len(filtered) - 1
           THEN filtered[currentIndex + 2]
           ELSE sel

HandlePrevChannel(filtered, sel) ==
  LET currentIndex == GetCurrentChannelIndex(filtered, sel)
  IN  IF Len(filtered) = 0 THEN sel
      ELSE IF currentIndex > 0 THEN filtered[currentIndex] ELSE sel

Clamp(v) == IF v < 0 THEN 0 ELSE IF v > 10 THEN 10 ELSE v

\* ------------------------------------------------------------------ state
VARIABLES
  \* IpTv.jsx
  channels, selectedChannel, searchTerm, selectedCategory, showRemote,
  playerState, remoteSessionId, remoteHostStatus, remoteConnectedClients,
  remoteError, remotePeer, remoteConnections, hostClosure, storedSessionId,
  \* Player.jsx
  player, video, engine, pendingPlay, rejecting, videoEvents,
  \* PeerLink
  conns, nextConn, toHost, toCtrl,
  \* RemotePage
  ctrlPeer, connectionStatus, hostState, connectionRef, paramSessionId,
  \* history: the number of changes the host snapshot went through while a
  \* session peer existed (no state message is built before the first one), the
  \* snapshot number of the last state message sent on each connection, and
  \* the kind of the last callback
  ver, sentVer, lastOp

hostVars == <<channels, selectedChannel, searchTerm, selectedCategory, showRemote,
              playerState, remoteSessionId, remoteHostStatus, remoteConnectedClients,
              remoteError, remotePeer, remoteConnections, hostClosure, storedSessionId>>
navVars == <<channels, selectedChannel, searchTerm, selectedCategory>>
sessionVars == <<remoteSessionId, remoteHostStatus, remoteConnectedClients,
                 remoteError, remotePeer, remoteConnections, hostClosure, storedSessionId>>
playerVars == <<player, video, engine, pendingPlay, rejecting, videoEvents>>
linkVars == <<conns, nextConn, toHost>>
ctrlVars == <<ctrlPeer, connectionStatus, hostState, connectionRef, paramSessionId>>
outVars == <<toCtrl, sentVer>>
vars == <<hostVars, playerVars, linkVars, outVars, ctrlVars, ver, lastOp>>

ConnIds == 1..MaxConns
NoPeer == [id |-> "", open |-> FALSE]

\* the filtered view of the current render
Filtered == FilteredChannels(channels, searchTerm, selectedCategory)

\* the values of the current render
CurrentRender == [selectedChannel |-> selectedChannel, playerState |-> playerState,
                  filteredChannels |-> Filtered]

\* what the callbacks created in the current render close over
Closure == [selectedChannel |-> selectedChannel, playerState |-> playerState,
            filteredChannels |-> Filtered, ver |-> ver]

\* the payload sendStateToConnection builds from the values it closes over
StatePayload(cl) ==
  [channel |-> cl.selectedChannel,
   player |-> cl.playerState,
   nav |-> [hasNext |-> HasNextChannel(cl.filteredChannels, cl.selectedChannel),
            hasPrev |-> HasPrevChannel(cl.filteredChannels, cl.selectedChannel)]]

StateMessage(cl) == [type |-> "state", payload |-> StatePayload(cl), ver |-> cl.ver]

\* the host's current snapshot
Snapshot == StatePayload(CurrentRender)

\* ------------------------------------------------------------------- Init
InitPlayer ==
  [isPlaying |-> FALSE, isLoading |-> TRUE, error |-> NoError, currentTime |-> 0,
   duration |-> 0, volume |-> 10, isMuted |-> FALSE]

InitHostState ==
  [channel |-> NoChannel,
   player |-> [isPlaying |-> FALSE, volume |-> 10, isMuted |-> FALSE],
   nav |-> [hasNext |-> FALSE, hasPrev |-> FALSE]]

Init ==
  /\ channels = <<>>
  /\ selectedChannel = NoChannel
  /\ searchTerm = <<>>
  /\ selectedCategory = "All"
  /\ showRemote = FALSE
  /\ playerState = [isPlaying |-> FALSE, volume |-> 10, isMuted |-> FALSE]
  /\ storedSessionId \in {""} \cup SessionIds
  /\ remoteSessionId = storedSessionId
  /\ remoteHostStatus = "inactive"
  /\ remoteConnectedClients = 0
  /\ remoteError = NoError
  /\ remotePeer = NoPeer
  /\ remoteConnections = <<>>
  /\ player = InitPlayer
  /\ video = [paused |-> TRUE, volume |-> 10, muted |-> FALSE]
  /\ engine \in {[kind |-> k, hls |-> "none", live |-> 0, listeners |-> 0, src |-> "",
                    startLoads |-> 0] :
                   k \in {"hls", "native", "none"}}
  /\ pendingPlay = {}
  /\ rejecting = {}
  /\ videoEvents = <<>>
  /\ conns = [k \in ConnIds |-> [ctrl |-> 0, target |-> "", host |-> "none", cli |-> "none"]]
  /\ nextConn = 1
  /\ toHost = [k \in ConnIds |-> <<>>]
  /\ toCtrl = [k \in ConnIds |-> <<>>]
  /\ ctrlPeer = [c \in Controllers |-> "init"]
  /\ connectionStatus = [c \in Controllers |-> "initializing"]
  /\ hostState = [c \in Controllers |-> InitHostState]
  /\ connectionRef = [c \in Controllers |-> 0]
  /\ paramSessionId \in [Controllers -> RouteIds]
  /\ ver = 0
  /\ sentVer = [k \in ConnIds |-> -1]
  /\ lastOp = "init"
  /\ hostClosure = Closure

\* ------------------------------------------------- render and its effects
Range(s) == {s[i] : i \in 1..Len(s)}

\* a sendStateToConnection that does not look at conn.open
SendStateToAnyConnection(k, cl, cs, q) == Append(q, StateMessage(cl))

\* sendStateToConnection(conn) as built in the render with closure cl:
\* the queue of connection k afterwards
SendStateToConnection(k, cl, cs, q) ==
  IF cs[k].host # "open" THEN q ELSE Append(q, StateMessage(cl))

\* the connections broadcastRemoteState reaches after the handler has run
Recipients == {k \in Range(remoteConnections) : conns[k].host = "open"}

\* broadcastRemoteState, run by the effect after a render
BroadcastRemoteState ==
  /\ \A k \in Recipients' : Len(toCtrl[k]) < MaxQueue
  /\ toCtrl' = [k \in ConnIds |->
       IF k \in Range(remoteConnections')
       THEN SendStateToConnection(k, [selectedChannel |-> selectedChannel',
                                      playerState |-> playerState',
                                      filteredChannels |-> Filtered',
                                      ver |-> ver'], conns', toCtrl[k])
       ELSE toCtrl[k]]
  /\ sentVer' = [k \in ConnIds |-> IF toCtrl'[k] # toCtrl[k] THEN ver' ELSE sentVer[k]]

\* the effects of the render that follows a handler: the Player reports
\* {isPlaying, volume, isMuted} to the host (onPlayerStateChange), and the host
\* broadcasts when selectedChannel, playerState or the filtered view changed
Render(newObjects) ==
  /\ playerState' = IF selectedChannel' # NoChannel
                    THEN [isPlaying |-> player'.isPlaying, volume |-> player'.volume,
                          isMuted |-> player'.isMuted]
                    ELSE playerState
  /\ ver' = IF Snapshot' # Snapshot /\ remotePeer' # NoPeer THEN ver + 1 ELSE ver
  /\ ver' <= MaxVer
  /\ IF Snapshot' # Snapshot \/ newObjects
     THEN BroadcastRemoteState
     ELSE UNCHANGED outVars

\* ------------------------------------------------------------ Player.jsx
MediaAttached ==
  \/ engine.kind = "hls" /\ engine.hls \in {"loading", "ready"}
  \/ engine.kind = "native" /\ engine.src # ""

HlsLive(e) == e.kind = "hls" /\ e.hls \in {"loading", "ready"}

\* hls.destroy(): releases a live instance, a no-op on a destroyed one
HlsDestroy(e) ==
  IF HlsLive(e) THEN [e EXCEPT !.hls = "destroyed", !.live = e.live - 1] ELSE e

\* a play promise of the source the effect has just detached
PreviousSource(kind) == IF kind = "auto" THEN "auto-prev" ELSE "toggle-prev"

\* the cleanup of the src effect: destroys the hls instance, removes the eight
\* named listeners (the anonymous loadedmetadata listener of the native path
\* is not among them), pauses and unloads the element
SrcCleanup(e) == HlsDestroy(e)

\* setupVideo for source u on the engine record left by the cleanup
SetupVideo(e, u) ==
  CASE e.kind = "hls" -> [e EXCEPT !.hls = "loading", !.live = e.live + 1, !.src = u,
                                   !.startLoads = 0]
    [] e.kind = "native" -> [e EXCEPT !.listeners = e.listeners + 1, !.src = u]
    [] OTHER -> [e EXCEPT !.src = u]

\* the src effect of the Player for a new source u: cleanup of the previous
\* run, then setIsLoading(true), setError(null), setupVideo()
SrcEffect(u) ==
  /\ engine.kind = "native" => engine.listeners < MaxListeners
  /\ engine' = SetupVideo(IF engine.src # "" THEN SrcCleanup(engine) ELSE engine, u)
  /\ player' = IF engine.kind = "none"
               THEN [player EXCEPT !.isLoading = FALSE,
                                   !.error = "HLS is not supported in this browser"]
               ELSE [player EXCEPT !.isLoading = TRUE, !.error = NoError]
  /\ video' = IF engine.src # "" THEN [video EXCEPT !.paused = TRUE] ELSE video
  \* video.pause() and video.load() of the cleanup reject the play promises of
  \* the previous source
  /\ rejecting' = rejecting \cup {PreviousSource(x) : x \in pendingPlay}
  /\ pendingPlay' = {}
  /\ videoEvents' = <<>>

\* setSelectedChannel(ch) and the render after it
SetSelectedChannel(ch) ==
  /\ selectedChannel' = ch
  /\ IF ch.url # selectedChannel.url /\ ch.url # ""
     THEN SrcEffect(ch.url)
     ELSE UNCHANGED playerVars

\* video.play() with the catch handler of `kind` ("auto": the autoplay attempt
\* of setupVideo, "toggle": togglePlayPause). Allowed: the element leaves the
\* paused state, a play event is queued and the promise stays pending until
\* playback starts. Refused by the browser: the promise is rejected at once.
VideoPlay(kind) ==
  \/ /\ Len(videoEvents) < MaxEvents
     /\ video' = [video EXCEPT !.paused = FALSE]
     /\ videoEvents' = IF video.paused THEN Append(videoEvents, "play") ELSE videoEvents
     /\ pendingPlay' = pendingPlay \cup {kind}
     /\ UNCHANGED rejecting
  \/ /\ video.paused
     /\ rejecting' = rejecting \cup {kind}
     /\ UNCHANGED <<video, videoEvents, pendingPlay>>

\* video.pause(): queues a pause event and rejects the pending play promises
VideoPause ==
  IF video.paused
  THEN UNCHANGED <<video, videoEvents, pendingPlay, rejecting>>
  ELSE /\ Len(videoEvents) < MaxEvents
       /\ video' = [video EXCEPT !.paused = TRUE]
       /\ videoEvents' = Append(videoEvents, "pause")
       /\ rejecting' = rejecting \cup pendingPlay
       /\ pendingPlay' = {}

\* the imperative handle is there when the Player is mounted
PlayerMounted == selectedChannel # NoChannel

TogglePlayPause ==
  /\ IF player.isPlaying THEN VideoPause ELSE VideoPlay("toggle")
  /\ UNCHANGED <<player, engine>>

StopPlayback ==
  /\ VideoPause
  /\ player' = [player EXCEPT !.isPlaying = FALSE]
  /\ UNCHANGED engine

\* a toggleMute that unmutes without the 0.5 default
MuteToggledNoDefault(vd, pl) ==
  [video |-> [vd EXCEPT !.muted = ~vd.muted],
   player |-> [pl EXCEPT !.isMuted = ~vd.muted]]

\* toggleMute(): the video element and the PlayerState it leaves
MuteToggled(vd, pl) ==
  LET muted == ~vd.muted
      reset == ~muted /\ vd.volume = 0
  IN  [video |-> [vd EXCEPT !.muted = muted,
                            !.volume = IF reset THEN 5 ELSE vd.volume],
       player |-> [pl EXCEPT !.isMuted = muted,
                             !.volume = IF reset THEN 5 ELSE pl.volume]]

ToggleMute ==
  /\ video' = MuteToggled(video, player).video
  /\ player' = MuteToggled(video, player).player
  /\ UNCHANGED <<engine, pendingPlay, rejecting, videoEvents>>

\* a setVolumeLevel that stores its argument as it comes
VolumeLevelSetUnclamped(vd, pl, newVolume) ==
  [video |-> [vd EXCEPT !.volume = newVolume, !.muted = (newVolume = 0)],
   player |-> [pl EXCEPT !.volume = newVolume, !.isMuted = (newVolume = 0)]]

\* setVolumeLevel(newVolume): the video element and the PlayerState it leaves
VolumeLevelSet(vd, pl, newVolume) ==
  LET clamped == Clamp(newVolume)
      muted == clamped = 0
  IN  [video |-> [vd EXCEPT !.volume = clamped, !.muted = muted],
       player |-> [pl EXCEPT !.volume = clamped, !.isMuted = muted]]

SetVolumeLevel(newVolume) ==
  /\ video' = VolumeLevelSet(video, player, newVolume).video
  /\ player' = VolumeLevelSet(video, player, newVolume).player
  /\ UNCHANGED <<engine, pendingPlay, rejecting, videoEvents>>

\* a changeVolumeBy that steps by twice the delta
ChangeVolumeByTwice(delta) == SetVolumeLevel(video.volume + 2 * delta)

ChangeVolumeBy(delta) == SetVolumeLevel(video.volume + delta)

\* the catch handlers of rejected play promises, run at the microtask
\* checkpoint: both set isPlaying false, the autoplay one also clears isLoading
PlayRejected ==
  /\ rejecting # {}
  /\ player' = [player EXCEPT !.isPlaying = FALSE,
                              !.isLoading = IF rejecting \cap {"auto", "auto-prev"} # {} THEN FALSE
                                            ELSE player.isLoading]
  /\ rejecting' = {}
  /\ UNCHANGED <<video, engine, pendingPlay, videoEvents>>

\* playback starts: the pending play promises resolve (nothing listens)
PlayResolved ==
  /\ pendingPlay # {}
  /\ ~video.paused
  /\ MediaAttached
  /\ pendingPlay' = {}
  /\ UNCHANGED <<player, video, engine, rejecting, videoEvents>>

\* handlePlay / handlePause
VideoPlayPauseEvent ==
  /\ videoEvents # <<>>
  /\ player' = [player EXCEPT !.isPlaying = (Head(videoEvents) = "play")]
  /\ videoEvents' = Tail(videoEvents)
  /\ UNCHANGED <<video, engine, pendingPlay, rejecting>>

\* handleWaiting
VideoWaiting ==
  /\ MediaAttached
  /\ player' = [player EXCEPT !.isLoading = TRUE]
  /\ UNCHANGED <<video, engine, pendingPlay, rejecting, videoEvents>>

\* handleCanPlay, d is video.duration || 0
VideoCanPlay(d) ==
  /\ MediaAttached
  /\ player' = [player EXCEPT !.isLoading = FALSE, !.duration = d]
  /\ UNCHANGED <<video, engine, pendingPlay, rejecting, videoEvents>>

\* handleTimeUpdate, t is video.currentTime || 0
VideoTimeUpdate(t) ==
  /\ MediaAttached
  /\ player' = [player EXCEPT !.currentTime = t]
  /\ UNCHANGED <<video, engine, pendingPlay, rejecting, videoEvents>>

\* a loadedmetadata handler that takes the defaults of a fresh element
\* (volume 1, not muted) instead of the element's values
VideoLoadedMetadataDefaults(d) ==
  /\ MediaAttached
  /\ player' = [player EXCEPT !.duration = d, !.volume = 10, !.isMuted = FALSE]
  /\ UNCHANGED <<video, engine, pendingPlay, rejecting, videoEvents>>

\* the loadedmetadata event: handleLoadedMetadata and, on the native path, every
\* anonymous listener setupVideo has added so far (each clears isLoading and
\* attempts autoplay)
VideoLoadedMetadata(d) ==
  /\ MediaAttached
  /\ IF engine.kind = "native" /\ engine.listeners > 0
     THEN /\ VideoPlay("auto")
          /\ player' = [player EXCEPT !.isLoading = FALSE, !.duration = d,
                                      !.volume = video.volume, !.isMuted = video.muted]
     ELSE /\ player' = [player EXCEPT !.duration = d, !.volume = video.volume,
                                      !.isMuted = video.muted]
          /\ UNCHANGED <<video, pendingPlay, rejecting, videoEvents>>
  /\ UNCHANGED engine

\* handleVolumeChangeEvent
VideoVolumeChange ==
  /\ PlayerMounted
  /\ player' = [player EXCEPT !.volume = video.volume,
                              !.isMuted = video.muted \/ video.volume = 0]
  /\ UNCHANGED <<video, engine, pendingPlay, rejecting, videoEvents>>

\* handleError
VideoError ==
  /\ MediaAttached
  /\ player' = [player EXCEPT !.error = "Failed to load video", !.isLoading = FALSE]
  /\ UNCHANGED <<video, engine, pendingPlay, rejecting, videoEvents>>

\* Hls.Events.MANIFEST_PARSED
HlsManifestParsed ==
  /\ engine.kind = "hls" /\ engine.hls = "loading"
  /\ engine' = [engine EXCEPT !.hls = "ready"]
  /\ player' = [player EXCEPT !.isLoading = FALSE]
  /\ VideoPlay("auto")

ErrorKinds == {"network", "media", "other"}

\* an ERROR handler that answers every fatal error by hls.startLoad()
HlsErrorRetryingAll(fatal, kind) ==
  /\ HlsLive(engine)
  /\ IF fatal
     THEN /\ engine.startLoads < MaxStartLoads
          /\ engine' = [engine EXCEPT !.startLoads = @ + 1]
          /\ UNCHANGED <<player, video, pendingPlay, rejecting, videoEvents>>
     ELSE UNCHANGED playerVars

\* an ERROR handler that gives up on every fatal error
HlsErrorFatalAll(fatal, kind) ==
  /\ HlsLive(engine)
  /\ IF fatal
     THEN /\ engine' = HlsDestroy(engine)
          /\ player' = [player EXCEPT !.error = "Failed to load video",
                                      !.isLoading = FALSE]
          /\ video' = [video EXCEPT !.paused = TRUE]
          /\ rejecting' = rejecting \cup pendingPlay
          /\ pendingPlay' = {}
          /\ videoEvents' = <<>>
     ELSE UNCHANGED playerVars

\* Hls.Events.ERROR with data.fatal and data.type; engine.startLoads counts the
\* hls.startLoad() calls on the instance of the current source
HlsError(fatal, kind) ==
  /\ HlsLive(engine)
  /\ CASE fatal /\ kind = "other" ->
            \* hls.destroy() detaches the media, which unloads the element
            /\ engine' = HlsDestroy(engine)
            /\ player' = [player EXCEPT !.error = "Failed to load video",
                                        !.isLoading = FALSE]
            /\ video' = [video EXCEPT !.paused = TRUE]
            /\ rejecting' = rejecting \cup pendingPlay
            /\ pendingPlay' = {}
            /\ videoEvents' = <<>>
       [] fatal /\ kind = "network" ->
            \* hls.startLoad()
            /\ engine.startLoads < MaxStartLoads
            /\ engine' = [engine EXCEPT !.startLoads = @ + 1]
            /\ UNCHANGED <<player, video, pendingPlay, rejecting, videoEvents>>
       [] OTHER ->
            \* hls.recoverMediaError(), or nothing
            UNCHANGED playerVars

\* --------------------------------------------------- IpTv.jsx: navigation
\* a handler that touches neither the session nor the link
LocalOnly == UNCHANGED <<showRemote, sessionVars, linkVars, ctrlVars>>

\* the mount effect with a cached playlist, fetchPlaylist and handleRefresh:
\* setChannels(parsed), setSelectedChannel(parsed[0]) with freshly parsed objects
LoadPlaylist ==
  /\ channels' = Playlist
  /\ SetSelectedChannel(Playlist[1])
  /\ UNCHANGED <<searchTerm, selectedCategory>>
  /\ LocalOnly
  /\ Render(TRUE)

\* handleSelectChannel(ch) on an entry of the displayed (filtered) list
HandleSelectChannel(i) ==
  /\ i \in 1..Len(Filtered)
  /\ SetSelectedChannel(Filtered[i])
  /\ UNCHANGED <<channels, searchTerm, selectedCategory>>
  /\ LocalOnly
  /\ Render(FALSE)

\* handleNextChannel / handlePrevChannel of the current render (keys, buttons)
NextChannel ==
  /\ SetSelectedChannel(HandleNextChannel(Filtered, selectedChannel))
  /\ UNCHANGED <<channels, searchTerm, selectedCategory>>
  /\ LocalOnly
  /\ Render(FALSE)

PrevChannel ==
  /\ SetSelectedChannel(HandlePrevChannel(Filtered, selectedChannel))
  /\ UNCHANGED <<channels, searchTerm, selectedCategory>>
  /\ LocalOnly
  /\ Render(FALSE)

\* a setSearchTerm that moves the selection to the first match
SetSearchTermSelectingFirst(s) ==
  /\ s # searchTerm
  /\ searchTerm' = s
  /\ LET matches == FilteredChannels(channels, s, selectedCategory)
     IN  SetSelectedChannel(IF matches # <<>> THEN matches[1] ELSE selectedChannel)
  /\ UNCHANGED <<channels, selectedCategory>>
  /\ LocalOnly
  /\ Render(TRUE)

\* setSearchTerm / setSelectedCategory: filteredChannels is recomputed
SetSearchTerm(s) ==
  /\ s # searchTerm
  /\ searchTerm' = s
  /\ UNCHANGED <<channels, selectedChannel, selectedCategory, playerVars>>
  /\ LocalOnly
  /\ Render(TRUE)

SetSelectedCategory(g) ==
  /\ g # selectedCategory
  /\ selectedCategory' = g
  /\ UNCHANGED <<channels, selectedChannel, searchTerm, playerVars>>
  /\ LocalOnly
  /\ Render(TRUE)

\* a Player handler or event running on the host, and the render after it
OnPlayer(A) ==
  /\ A
  /\ UNCHANGED navVars
  /\ LocalOnly
  /\ Render(FALSE)

\* ------------------------------------------------ IpTv.jsx: remote session
\* conn.close() on every registered connection, and peer.destroy(), which
\* closes whatever connection of the peer is left
CloseHostSide(cs) ==
  [k \in ConnIds |->
     IF cs[k].host \in {"pending", "open"} THEN [cs[k] EXCEPT !.host = "closed"] ELSE cs[k]]

\* a stopRemoteHost that closes the registered connections and keeps the listener
StopRemoteHostKeepingListener(nextStatus) ==
  /\ conns' = [k \in ConnIds |->
                 IF k \in Range(remoteConnections) /\ conns[k].host \in {"pending", "open"}
                 THEN [conns[k] EXCEPT !.host = "closed"] ELSE conns[k]]
  /\ remoteConnections' = <<>>
  /\ remoteConnectedClients' = 0
  /\ remotePeer' = remotePeer
  /\ remoteHostStatus' = nextStatus

\* stopRemoteHost(nextStatus)
StopRemoteHost(nextStatus) ==
  /\ conns' = (IF remotePeer # NoPeer
               THEN CloseHostSide(conns)
               ELSE [k \in ConnIds |->
                       IF k \in Range(remoteConnections) /\ conns[k].host \in {"pending", "open"}
                       THEN [conns[k] EXCEPT !.host = "closed"] ELSE conns[k]])
  /\ remoteConnections' = <<>>
  /\ remoteConnectedClients' = 0
  /\ remotePeer' = NoPeer
  /\ remoteHostStatus' = nextStatus

\* a startRemoteHost that opens a listener whether or not one exists
StartRemoteHostAlways(peer) ==
  \E generated \in GeneratedIds :
    LET id == IF remoteSessionId # "" THEN remoteSessionId ELSE generated
    IN  /\ remoteSessionId' = id
        /\ storedSessionId' = id
        /\ remoteHostStatus' = "connecting"
        /\ remoteError' = NoError
        /\ remotePeer' = [id |-> id, open |-> FALSE]
        /\ hostClosure' = Closure

\* a startRemoteHost that generates an identifier at every start
StartRemoteHostFresh(peer) ==
  IF peer # NoPeer
  THEN /\ remoteHostStatus' = "ready"
       /\ UNCHANGED <<remoteSessionId, storedSessionId, remoteError, remotePeer, hostClosure>>
  ELSE \E id \in GeneratedIds :
         /\ remoteSessionId' = id
         /\ storedSessionId' = id
         /\ remoteHostStatus' = "connecting"
         /\ remoteError' = NoError
         /\ remotePeer' = [id |-> id, open |-> FALSE]
         /\ hostClosure' = Closure

\* startRemoteHost of the current render; NoPeer stands for remotePeerRef.current = null
StartRemoteHost(peer) ==
  IF peer # NoPeer
  THEN /\ remoteHostStatus' = "ready"
       /\ UNCHANGED <<remoteSessionId, storedSessionId, remoteError, remotePeer, hostClosure>>
  ELSE \E generated \in GeneratedIds :
         LET id == IF remoteSessionId # "" THEN remoteSessionId ELSE generated
         IN  /\ remoteSessionId' = id
             /\ storedSessionId' = id
             /\ remoteHostStatus' = "connecting"
             /\ remoteError' = NoError
             /\ remotePeer' = [id |-> id, open |-> FALSE]
             \* the peer's handlers keep the callbacks of this render
             /\ hostClosure' = Closure

\* setShowRemote(true), then the effect that starts the host when inactive
ShowRemote ==
  /\ selectedChannel # NoChannel
  /\ ~showRemote
  /\ showRemote' = TRUE
  /\ IF remoteHostStatus = "inactive"
     THEN StartRemoteHost(remotePeer)
     ELSE UNCHANGED <<remoteSessionId, storedSessionId, remoteError, remotePeer,
                      hostClosure, remoteHostStatus>>
  /\ UNCHANGED <<navVars, playerVars, remoteConnectedClients, remoteConnections,
                 linkVars, ctrlVars, playerState, outVars, ver>>

\* onClose of the remote panel
CloseRemote ==
  /\ showRemote
  /\ showRemote' = FALSE
  /\ UNCHANGED <<navVars, playerVars, sessionVars, linkVars, ctrlVars,
                 playerState, outVars, ver>>

\* the Start session button (shown when inactive or error)
StartSession ==
  /\ showRemote
  /\ remoteHostStatus \in {"inactive", "error"}
  /\ StartRemoteHost(remotePeer)
  /\ UNCHANGED <<navVars, showRemote, playerVars, remoteConnectedClients,
                 remoteConnections, linkVars, ctrlVars, playerState, outVars, ver>>

\* startRemoteHost() called through the onStart prop while the session is up
\* (the card itself shows no Start button then)
StartAgain ==
  /\ remoteHostStatus \in {"connecting", "ready"}
  /\ StartRemoteHost(remotePeer)
  /\ UNCHANGED <<navVars, showRemote, playerVars, remoteConnectedClients,
                 remoteConnections, linkVars, ctrlVars, playerState, outVars, ver>>

\* the Stop session button (shown when ready or connecting): stopRemoteHost("inactive")
\* and the render that commits the status
StopSession ==
  /\ showRemote
  /\ remoteHostStatus \in {"ready", "connecting"}
  /\ StopRemoteHost("inactive")
  /\ UNCHANGED <<navVars, showRemote, playerVars, remoteSessionId, storedSessionId,
                 remoteError, hostClosure, nextConn, toHost, ctrlVars, playerState,
                 outVars, ver>>

\* the effect on [showRemote, remoteHostStatus] has startRemoteHost() to run:
\* the panel is shown and the committed status is inactive
AutoStartPending == showRemote /\ remoteHostStatus = "inactive"

\* the effect that starts the host when the panel is shown and the status
\* inactive, run after the render a stop has caused
AutoStart ==
  /\ AutoStartPending
  /\ StartRemoteHost(remotePeer)
  /\ UNCHANGED <<navVars, showRemote, playerVars, remoteConnectedClients,
                 remoteConnections, linkVars, ctrlVars, playerState, outVars, ver>>

\* IpTv leaves the route and is mounted again: the cleanups of the unmount
\* (stopRemoteHost(), the src cleanup of the Player), then the initial state
\* of a new mount, remoteSessionId read from localStorage
HostRemount ==
  /\ StopRemoteHost("inactive")
  /\ channels' = <<>>
  /\ selectedChannel' = NoChannel
  /\ searchTerm' = <<>>
  /\ selectedCategory' = "All"
  /\ showRemote' = FALSE
  /\ playerState' = [isPlaying |-> FALSE, volume |-> 10, isMuted |-> FALSE]
  /\ remoteSessionId' = storedSessionId
  /\ remoteError' = NoError
  /\ player' = InitPlayer
  /\ video' = [paused |-> TRUE, volume |-> 10, muted |-> FALSE]
  /\ engine' = [kind |-> engine.kind, hls |-> "none", live |-> 0, listeners |-> 0,
                src |-> "", startLoads |-> 0]
  /\ pendingPlay' = {}
  /\ rejecting' = {}
  /\ videoEvents' = <<>>
  /\ hostClosure' = [selectedChannel |-> NoChannel, playerState |-> playerState',
                     filteredChannels |-> <<>>, ver |-> ver]
  /\ UNCHANGED <<storedSessionId, nextConn, toHost, outVars, ctrlVars, ver>>

\* peer.on("open")
HostPeerOpen ==
  /\ remotePeer # NoPeer
  /\ ~remotePeer.open
  /\ remotePeer' = [remotePeer EXCEPT !.open = TRUE]
  /\ remoteHostStatus' = "ready"
  /\ UNCHANGED <<navVars, showRemote, playerVars, remoteSessionId, storedSessionId,
                 remoteError, remoteConnectedClients, remoteConnections, hostClosure,
                 linkVars, ctrlVars, playerState, outVars, ver>>

\* a peer.on("error") that reports the error and stops nothing
HostPeerErrorNoStop ==
  /\ remotePeer # NoPeer
  /\ remoteError' = "Unable to start remote session"
  /\ remoteHostStatus' = "error"
  /\ UNCHANGED <<navVars, showRemote, playerVars, remoteSessionId, storedSessionId,
                 remoteConnectedClients, remoteConnections, remotePeer, hostClosure,
                 linkVars, ctrlVars, playerState, outVars, ver>>

\* peer.on("error")
HostPeerError ==
  /\ remotePeer # NoPeer
  /\ remoteError' = "Unable to start remote session"
  /\ StopRemoteHost("error")
  /\ UNCHANGED <<navVars, showRemote, playerVars, remoteSessionId, storedSessionId,
                 hostClosure, nextConn, toHost, ctrlVars, playerState, outVars, ver>>

\* peer.on("connection"): registers conn and calls sendStateToConnection(conn) of
\* the render the host was started in. PeerLink may hand the connection over
\* before or after its channel is open.
HostOnConnection(k, openNow) ==
  /\ remotePeer # NoPeer /\ remotePeer.open
  /\ conns[k].host = "none" /\ conns[k].cli = "pending"
  /\ conns[k].target = remotePeer.id
  /\ conns' = [conns EXCEPT ![k].host = IF openNow THEN "open" ELSE "pending"]
  /\ remoteConnections' = Append(remoteConnections, k)
  /\ remoteConnectedClients' = Len(remoteConnections')
  /\ Len(toCtrl[k]) < MaxQueue
  /\ toCtrl' = [toCtrl EXCEPT ![k] = SendStateToConnection(k, hostClosure, conns', @)]
  /\ sentVer' = [sentVer EXCEPT ![k] = IF toCtrl'[k] # toCtrl[k] THEN hostClosure.ver ELSE @]
  /\ UNCHANGED <<navVars, showRemote, playerVars, remoteSessionId, storedSessionId,
                 remoteError, remotePeer, remoteHostStatus, hostClosure,
                 nextConn, toHost, ctrlVars, playerState, ver>>

\* the host side of the channel opens (conn.open becomes true; nothing listens)
HostConnOpen(k) ==
  /\ conns[k].host = "pending" /\ conns[k].cli \in {"pending", "open"}
  /\ conns' = [conns EXCEPT ![k].host = "open"]
  /\ UNCHANGED <<hostVars, playerVars, nextConn, toHost, outVars, ctrlVars, ver>>

\* a cleanupConnection that forgets every connection
CleanupAllConnections(k) ==
  /\ remoteConnections' = <<>>
  /\ remoteConnectedClients' = 0

\* cleanupConnection
CleanupConnection(k) ==
  /\ remoteConnections' = SelectSeq(remoteConnections, LAMBDA c : c # k)
  /\ remoteConnectedClients' = Len(remoteConnections')

\* conn.on("close") at the host: the controller closed the connection
HostOnClose(k) ==
  /\ conns[k].host \in {"pending", "open"} /\ conns[k].cli = "closed"
  /\ conns' = [conns EXCEPT ![k].host = "closed"]
  /\ CleanupConnection(k)
  /\ UNCHANGED <<navVars, showRemote, playerVars, remoteSessionId, storedSessionId,
                 remoteError, remotePeer, remoteHostStatus, hostClosure,
                 nextConn, toHost, ctrlVars, playerState, outVars, ver>>

\* conn.on("error") at the host
HostOnConnError(k) ==
  /\ conns[k].host \in {"pending", "open"}
  /\ k \in Range(remoteConnections)
  /\ CleanupConnection(k)
  /\ UNCHANGED <<navVars, showRemote, playerVars, remoteSessionId, storedSessionId,
                 remoteError, remotePeer, remoteHostStatus, hostClosure,
                 linkVars, ctrlVars, playerState, outVars, ver>>

Commands == {"next", "prev", "toggle-play", "stop", "toggle-mute", "volume-up",
             "volume-down", "set-volume"}

\* a payload {value}: kind tells what payload.value is, a finite number (value
\* holds it, in tenths), NaN, Infinity, -Infinity, or no number at all
NoPayload == [kind |-> "missing", value |-> 0]

NumberPayload(v) == [kind |-> "finite", value |-> v]

\* typeof payload?.value === "number": true of NaN and of both infinities
IsNumber(payload) == payload.kind \in {"finite", "nan", "inf", "-inf"}

\* remoteVolumeChange(payload.value) -> setVolumeLevel: Math.min(1, Math.max(0, v))
\* is 1 for Infinity and 0 for -Infinity; for NaN it is NaN, and the assignment
\* video.volume = NaN throws before any state is set
RemoteVolumeChange(payload) ==
  CASE payload.kind = "nan" -> UNCHANGED playerVars
    [] payload.kind = "inf" -> SetVolumeLevel(10)
    [] payload.kind = "-inf" -> SetVolumeLevel(0)
    [] OTHER -> SetVolumeLevel(payload.value)

\* handleRemoteCommand(command, payload) of the render the host was started
\* in: next and prev read that render's filteredChannels and selectedChannel
\* and set nothing when that render has no next or previous channel, the
\* player commands go through playerRef
HandleRemoteCommand(command, payload) ==
  CASE command = "next" /\ HasNextChannel(hostClosure.filteredChannels,
                                          hostClosure.selectedChannel) ->
         SetSelectedChannel(HandleNextChannel(hostClosure.filteredChannels,
                                              hostClosure.selectedChannel))
    [] command = "prev" /\ HasPrevChannel(hostClosure.filteredChannels,
                                          hostClosure.selectedChannel) ->
         SetSelectedChannel(HandlePrevChannel(hostClosure.filteredChannels,
                                              hostClosure.selectedChannel))
    [] command = "toggle-play" /\ PlayerMounted ->
         TogglePlayPause /\ UNCHANGED selectedChannel
    [] command = "stop" /\ PlayerMounted ->
         StopPlayback /\ UNCHANGED selectedChannel
    [] command = "toggle-mute" /\ PlayerMounted ->
         ToggleMute /\ UNCHANGED selectedChannel
    [] command = "volume-up" /\ PlayerMounted ->
         ChangeVolumeBy(1) /\ UNCHANGED selectedChannel
    [] command = "volume-down" /\ PlayerMounted ->
         ChangeVolumeBy(-1) /\ UNCHANGED selectedChannel
    [] command = "set-volume" /\ PlayerMounted /\ IsNumber(payload) ->
         RemoteVolumeChange(payload) /\ UNCHANGED selectedChannel
    [] OTHER -> UNCHANGED <<selectedChannel, playerVars>>

\* conn.on("data") at the host with a command message
HostOnCommand(k) ==
  /\ conns[k].host = "open"
  /\ toHost[k] # <<>>
  /\ Head(toHost[k]).type = "command"
  /\ toHost' = [toHost EXCEPT ![k] = Tail(@)]
  /\ HandleRemoteCommand(Head(toHost[k]).command, Head(toHost[k]).payload)
  /\ UNCHANGED <<channels, searchTerm, selectedCategory, showRemote, sessionVars,
                 conns, nextConn, ctrlVars>>
  /\ Render(FALSE)

\* a remote-ready handler that answers with a broadcast to every connection
HostOnRemoteReadyToAll(k) ==
  /\ conns[k].host = "open"
  /\ toHost[k] # <<>>
  /\ Head(toHost[k]).type = "remote-ready"
  /\ toHost' = [toHost EXCEPT ![k] = Tail(@)]
  /\ \A j \in Recipients : Len(toCtrl[j]) < MaxQueue
  /\ toCtrl' = [j \in ConnIds |->
       IF j \in Range(remoteConnections)
       THEN SendStateToConnection(j, hostClosure, conns, toCtrl[j])
       ELSE toCtrl[j]]
  /\ sentVer' = [j \in ConnIds |-> IF toCtrl'[j] # toCtrl[j] THEN hostClosure.ver ELSE sentVer[j]]
  /\ UNCHANGED <<hostVars, playerVars, conns, nextConn, ctrlVars, ver>>

\* conn.on("data") at the host with remote-ready
HostOnRemoteReady(k) ==
  /\ conns[k].host = "open"
  /\ toHost[k] # <<>>
  /\ Head(toHost[k]).type = "remote-ready"
  /\ toHost' = [toHost EXCEPT ![k] = Tail(@)]
  /\ Len(toCtrl[k]) < MaxQueue
  /\ toCtrl' = [toCtrl EXCEPT ![k] = SendStateToConnection(k, hostClosure, conns, @)]
  /\ sentVer' = [sentVer EXCEPT ![k] = IF toCtrl'[k] # toCtrl[k] THEN hostClosure.ver ELSE @]
  /\ UNCHANGED <<hostVars, playerVars, conns, nextConn, ctrlVars, ver>>

\* -------------------------------------------------- RemotePage (App.jsx)
\* connectToSession(sessionId) of controller c
ConnectToSession(c, sessionId) ==
  /\ sessionId # ""
  /\ nextConn <= MaxConns
  \* destroyConnection, then peer.connect
  /\ conns' = [k \in ConnIds |->
       IF k = nextConn
       THEN [ctrl |-> c, target |-> sessionId, host |-> "none", cli |-> "pending"]
       ELSE IF k = connectionRef[c] /\ conns[k].cli \in {"pending", "open"}
            THEN [conns[k] EXCEPT !.cli = "closed"]
            ELSE conns[k]]
  /\ connectionStatus' = [connectionStatus EXCEPT ![c] = "connecting"]
  /\ connectionRef' = [connectionRef EXCEPT ![c] = nextConn]
  /\ nextConn' = nextConn + 1

\* peer.on("open") of the controller's own peer
CtrlPeerOpen(c) ==
  /\ ctrlPeer[c] = "init"
  /\ ctrlPeer' = [ctrlPeer EXCEPT ![c] = "open"]
  /\ IF paramSessionId[c] # "" /\ nextConn <= MaxConns
     THEN ConnectToSession(c, paramSessionId[c])
     ELSE /\ connectionStatus' = [connectionStatus EXCEPT ![c] = "idle"]
          /\ UNCHANGED <<conns, connectionRef, nextConn>>
  /\ UNCHANGED <<hostVars, playerVars, toHost, outVars, hostState, paramSessionId, ver>>

\* connectToSession(sessionId) on a peer that lost its link to the signalling
\* server: destroyConnection and setConnectionStatus("connecting") run, then
\* peer.connect reports through peer.on("error") instead of returning a
\* connection, which leaves the status at error and no connection
ConnectToSessionOffline(c, sessionId) ==
  /\ sessionId # ""
  /\ conns' = [k \in ConnIds |->
       IF k = connectionRef[c] /\ conns[k].cli \in {"pending", "open"}
       THEN [conns[k] EXCEPT !.cli = "closed"]
       ELSE conns[k]]
  /\ connectionStatus' = [connectionStatus EXCEPT ![c] = "error"]
  /\ connectionRef' = [connectionRef EXCEPT ![c] = 0]
  /\ UNCHANGED nextConn

\* the Connect button; the peer created at mount is the only one the page
\* ever has
CtrlConnect(c, sessionId) ==
  /\ ctrlPeer[c] \in {"open", "down"}
  /\ connectionStatus[c] # "connecting"
  /\ IF ctrlPeer[c] = "down"
     THEN ConnectToSessionOffline(c, sessionId)
     ELSE ConnectToSession(c, sessionId)
  /\ UNCHANGED <<hostVars, playerVars, toHost, outVars, ctrlPeer, hostState,
                 paramSessionId, ver>>

\* peer.on("error") of the controller's own peer: the status becomes error and
\* nothing else is touched; a fatal error leaves the peer without its link to
\* the signalling server, any other (the addressed id has no listener) leaves
\* it usable
CtrlPeerError(c, fatal) ==
  /\ ctrlPeer[c] \in {"init", "open"}
  /\ ctrlPeer' = [ctrlPeer EXCEPT ![c] = IF fatal THEN "down" ELSE @]
  /\ connectionStatus' = [connectionStatus EXCEPT ![c] = "error"]
  /\ UNCHANGED <<hostVars, playerVars, linkVars, outVars, hostState, connectionRef,
                 paramSessionId, ver>>

\* a conn.on("open") that does not send remote-ready
CtrlOnOpenSilent(k) ==
  LET c == conns[k].ctrl
  IN  /\ conns[k].cli = "pending" /\ conns[k].host \in {"pending", "open"}
      /\ conns' = [conns EXCEPT ![k].cli = "open"]
      /\ connectionStatus' = [connectionStatus EXCEPT ![c] = "connected"]
      /\ UNCHANGED <<hostVars, playerVars, nextConn, toHost, outVars, ctrlPeer, hostState,
                     connectionRef, paramSessionId, ver>>

\* conn.on("open") at the controller. When the code connected to is not the
\* one of the route, navigate() replaces the route; paramSessionId is a
\* dependency of connectToSession and of the mount effect, so the effect runs
\* again: its cleanup closes the connection and destroys the peer, and a new
\* peer is created
CtrlOnOpen(k) ==
  LET c == conns[k].ctrl
  IN  /\ conns[k].cli = "pending" /\ conns[k].host \in {"pending", "open"}
      /\ Len(toHost[k]) < MaxQueue
      /\ connectionStatus' = [connectionStatus EXCEPT ![c] = "connected"]
      /\ toHost' = [toHost EXCEPT ![k] = Append(@, [type |-> "remote-ready"])]
      /\ IF paramSessionId[c] # conns[k].target
         THEN /\ paramSessionId' = [paramSessionId EXCEPT ![c] = conns[k].target]
              /\ conns' = [j \in ConnIds |->
                   IF j = k \/ (j = connectionRef[c] /\ conns[j].cli \in {"pending", "open"})
                   THEN [conns[j] EXCEPT !.cli = "closed"] ELSE conns[j]]
              /\ connectionRef' = [connectionRef EXCEPT ![c] = 0]
              /\ ctrlPeer' = [ctrlPeer EXCEPT ![c] = "init"]
         ELSE /\ conns' = [conns EXCEPT ![k].cli = "open"]
              /\ UNCHANGED <<connectionRef, paramSessionId, ctrlPeer>>
      /\ UNCHANGED <<hostVars, playerVars, nextConn, outVars, hostState, ver>>

\* a data handler that takes the channel and nav of a snapshot and keeps the
\* player it already shows
CtrlOnDataMerging(k) ==
  LET c == conns[k].ctrl
      message == Head(toCtrl[k])
  IN  /\ conns[k].cli = "open"
      /\ toCtrl[k] # <<>>
      /\ toCtrl' = [toCtrl EXCEPT ![k] = Tail(@)]
      /\ UNCHANGED sentVer
      /\ hostState' = IF message.type = "state"
                      THEN [hostState EXCEPT ![c].channel = message.payload.channel,
                                             ![c].nav = message.payload.nav]
                      ELSE hostState
      /\ UNCHANGED <<hostVars, playerVars, linkVars, ctrlPeer, connectionStatus,
                     connectionRef, paramSessionId, ver>>

\* conn.on("data") at the controller
CtrlOnData(k) ==
  LET c == conns[k].ctrl
      message == Head(toCtrl[k])
  IN  /\ conns[k].cli = "open"
      /\ toCtrl[k] # <<>>
      /\ toCtrl' = [toCtrl EXCEPT ![k] = Tail(@)]
      /\ UNCHANGED sentVer
      /\ hostState' = IF message.type = "state"
                      THEN [hostState EXCEPT ![c] = message.payload]
                      ELSE hostState
      /\ UNCHANGED <<hostVars, playerVars, linkVars, ctrlPeer, connectionStatus,
                     connectionRef, paramSessionId, ver>>

\* a close handler that resets the whole view
CtrlOnCloseResetting(k) ==
  LET c == conns[k].ctrl
  IN  /\ conns[k].cli \in {"pending", "open"} /\ conns[k].host = "closed"
      /\ conns' = [conns EXCEPT ![k].cli = "closed"]
      /\ connectionRef' = IF connectionRef[c] = k
                          THEN [connectionRef EXCEPT ![c] = 0] ELSE connectionRef
      /\ connectionStatus' = [connectionStatus EXCEPT ![c] = "disconnected"]
      /\ hostState' = [hostState EXCEPT ![c] = InitHostState]
      /\ UNCHANGED <<hostVars, playerVars, nextConn, toHost, outVars, ctrlPeer,
                     paramSessionId, ver>>

\* conn.on("close") at the controller: the host closed the connection
CtrlOnClose(k) ==
  LET c == conns[k].ctrl
  IN  /\ conns[k].cli \in {"pending", "open"} /\ conns[k].host = "closed"
      /\ conns' = [conns EXCEPT ![k].cli = "closed"]
      /\ connectionRef' = IF connectionRef[c] = k
                          THEN [connectionRef EXCEPT ![c] = 0] ELSE connectionRef
      /\ connectionStatus' = [connectionStatus EXCEPT ![c] = "disconnected"]
      /\ hostState' = [hostState EXCEPT ![c].channel = NoChannel,
                                        ![c].nav = [hasNext |-> FALSE, hasPrev |-> FALSE]]
      /\ UNCHANGED <<hostVars, playerVars, nextConn, toHost, outVars, ctrlPeer,
                     paramSessionId, ver>>

\* conn.on("error") at the controller
CtrlOnError(k) ==
  LET c == conns[k].ctrl
  IN  /\ conns[k].cli \in {"pending", "open"}
      /\ connectionRef' = IF connectionRef[c] = k
                          THEN [connectionRef EXCEPT ![c] = 0] ELSE connectionRef
      /\ connectionStatus' = [connectionStatus EXCEPT ![c] = "error"]
      /\ UNCHANGED <<hostVars, playerVars, linkVars, outVars, ctrlPeer, hostState,
                     paramSessionId, ver>>

\* the cleanup of the mount effect when the remote page goes away:
\* destroyConnection() and peer.destroy()
CtrlUnmount(c) ==
  /\ ctrlPeer[c] # "destroyed"
  /\ ctrlPeer' = [ctrlPeer EXCEPT ![c] = "destroyed"]
  /\ conns' = [k \in ConnIds |->
       IF conns[k].ctrl = c /\ conns[k].cli \in {"pending", "open"}
       THEN [conns[k] EXCEPT !.cli = "closed"] ELSE conns[k]]
  /\ connectionRef' = [connectionRef EXCEPT ![c] = 0]
  /\ UNCHANGED <<hostVars, playerVars, nextConn, toHost, outVars, connectionStatus,
                 hostState, paramSessionId, ver>>

\* sendCommand(command, payload) from a control of the remote; the controls are
\* disabled unless connected with a channel in view, Next and Prev also by nav
CtrlSendCommand(c, command, payload) ==
  LET k == connectionRef[c]
  IN  /\ connectionStatus[c] = "connected"
      /\ hostState[c].channel # NoChannel
      /\ command = "next" => hostState[c].nav.hasNext
      /\ command = "prev" => hostState[c].nav.hasPrev
      /\ k # 0
      /\ conns[k].cli = "open"
      /\ Len(toHost[k]) < MaxQueue
      /\ toHost' = [toHost EXCEPT ![k] =
                      Append(@, [type |-> "command", command |-> command,
                                 payload |-> payload])]
      /\ UNCHANGED <<hostVars, playerVars, conns, nextConn, outVars, ctrlVars, ver>>

\* what a peer at the far end of a connection can put into a command message:
\* the commands of the remote and one the host does not know, and a value that
\* is missing, finite, NaN or infinite
WireCommands == {"set-volume", "toggle-mute", "rewind"}

WirePayloads ==
  {NoPayload, NumberPayload(5), [kind |-> "nan", value |-> 0],
   [kind |-> "inf", value |-> 0], [kind |-> "-inf", value |-> 0]}

\* a command message arrives on connection k from a peer that is not bound to
\* the controls of the remote page: conn.on("data") at the host takes whatever
\* PeerLink delivers
PeerSendsCommand(k, command, payload) ==
  /\ conns[k].cli = "open"
  /\ Len(toHost[k]) < MaxQueue
  /\ toHost' = [toHost EXCEPT ![k] =
                  Append(@, [type |-> "command", command |-> command,
                             payload |-> payload])]
  /\ UNCHANGED <<hostVars, playerVars, conns, nextConn, outVars, ctrlVars, ver>>

\* ---------------------------------------------------------- specifications
\* a step of kind `name`
Op(name, A) == A /\ lastOp' = name

\* the callbacks of the Player and of its video element and engine
PlayerStep ==
  \/ OnPlayer(PlayerMounted /\ TogglePlayPause)
  \/ OnPlayer(PlayerMounted /\ StopPlayback)
  \/ OnPlayer(PlayResolved)
  \/ OnPlayer(VideoPlayPauseEvent)
  \/ OnPlayer(VideoWaiting)
  \/ \E d \in 0..MaxTime : OnPlayer(VideoCanPlay(d))
  \/ \E t \in 0..MaxTime : OnPlayer(VideoTimeUpdate(t))
  \/ \E d \in 0..MaxTime : OnPlayer(VideoLoadedMetadata(d))
  \/ OnPlayer(VideoError)
  \/ OnPlayer(HlsManifestParsed)
  \/ \E fatal \in BOOLEAN, kind \in ErrorKinds : OnPlayer(HlsError(fatal, kind))

VolumeStep ==
  \/ OnPlayer(PlayerMounted /\ ToggleMute)
  \/ \E v \in VolumeInputs : OnPlayer(PlayerMounted /\ SetVolumeLevel(v))
  \/ OnPlayer(PlayerMounted /\ ChangeVolumeBy(1))
  \/ OnPlayer(PlayerMounted /\ ChangeVolumeBy(-1))
  \/ OnPlayer(VideoVolumeChange)

SelectStep == \E i \in 1..Len(Playlist) : HandleSelectChannel(i)

NavStep ==
  \/ LoadPlaylist
  \/ NextChannel
  \/ PrevChannel
  \/ \E s \in SearchTerms : SetSearchTerm(s)
  \/ \E g \in Categories : SetSelectedCategory(g)

HostLinkStep ==
  \/ \E k \in ConnIds, openNow \in BOOLEAN : HostOnConnection(k, openNow)
  \/ \E k \in ConnIds : HostConnOpen(k)
  \/ \E k \in ConnIds : HostOnCommand(k)

HostCloseStep ==
  \/ \E k \in ConnIds : HostOnClose(k)
  \/ \E k \in ConnIds : HostOnConnError(k)

RemoteReadyStep == \E k \in ConnIds : HostOnRemoteReady(k)

HostStep ==
  \/ ShowRemote
  \/ CloseRemote
  \/ StartSession
  \/ StartAgain
  \/ StopSession
  \/ HostRemount
  \/ HostPeerOpen
  \/ HostPeerError
  \/ HostLinkStep
  \/ HostCloseStep

CtrlLinkStep(cs) ==
  \/ \E c \in cs : CtrlPeerOpen(c)
  \/ \E k \in ConnIds : CtrlOnOpen(k)
  \/ \E k \in ConnIds : CtrlOnData(k)

CtrlCloseStep(cs) ==
  \/ \E c \in cs, id \in SessionIds : CtrlConnect(c, id)
  \/ \E c \in cs, fatal \in BOOLEAN : CtrlPeerError(c, fatal)
  \/ \E k \in ConnIds : CtrlOnClose(k)
  \/ \E k \in ConnIds : CtrlOnError(k)
  \/ \E c \in cs : CtrlUnmount(c)

CtrlCommandStep(cs, cmds) ==
  \E c \in cs, command \in cmds :
    IF command = "set-volume"
    THEN \E v \in VolumeInputs :
           CtrlSendCommand(c, command, NumberPayload(v))
    ELSE CtrlSendCommand(c, command, NoPayload)

\* rejected play promises are handled at the microtask checkpoint, before the
\* next callback runs
Microtask == rejecting # {} /\ OnPlayer(PlayRejected)

Next ==
  \/ Op("microtask", Microtask)
  \/ Op("auto-start", AutoStart)
  \/ /\ rejecting = {}
     /\ ~AutoStartPending
     /\ \/ Op("select", SelectStep)
        \/ Op("remote-ready", RemoteReadyStep)
        \/ Op("other", PlayerStep \/ VolumeStep \/ NavStep \/ HostStep
                         \/ CtrlLinkStep(Controllers) \/ CtrlCloseStep(Controllers)
                         \/ CtrlCommandStep(Controllers, Commands))

Spec == Init /\ [][Next]_vars

\* The remote session on a host whose browser plays through hls.js, with one
\* controller: the playlist is loaded once, the viewer selects channels,
\* playback starts and pauses, the controller connects and sends next, prev
\* and toggle-play.
InitRemote ==
  /\ Init
  /\ engine.kind = "hls"
  /\ storedSessionId = ""
  /\ paramSessionId = [c \in Controllers |-> "AB12CD"]

RemoteCommands == {"next", "prev", "toggle-play"}

NextRemote ==
  \/ Op("microtask", Microtask)
  \/ /\ rejecting = {}
     /\ \/ Op("select", SelectStep)
        \/ Op("remote-ready", RemoteReadyStep)
        \/ Op("other", \/ channels = <<>> /\ LoadPlaylist
                       \/ OnPlayer(VideoPlayPauseEvent)
                       \/ ShowRemote
                       \/ HostPeerOpen
                       \/ HostLinkStep
                       \/ CtrlLinkStep({1})
                       \/ CtrlCommandStep({1}, RemoteCommands))

SpecRemote == InitRemote /\ [][NextRemote]_vars

\* Broadcasting to two controllers: the viewer opens the remote panel on the
\* first channel, then zaps forward and mutes; both controllers connect, the
\* second one goes away (its page is left, its connection closes or fails).
NextBroadcast ==
  \/ Op("remote-ready", RemoteReadyStep)
  \/ Op("other", \/ channels = <<>> /\ LoadPlaylist
                 \/ remotePeer # NoPeer /\ NextChannel
                 \/ remotePeer # NoPeer /\ ~player.isMuted
                      /\ OnPlayer(PlayerMounted /\ ToggleMute)
                 \/ ShowRemote
                 \/ HostPeerOpen
                 \/ \E k \in ConnIds, openNow \in BOOLEAN : HostOnConnection(k, openNow)
                 \/ \E k \in ConnIds : HostConnOpen(k)
                 \/ \E k \in ConnIds : conns[k].ctrl = 2 /\ HostOnClose(k)
                 \/ \E k \in ConnIds : conns[k].ctrl = 2 /\ HostOnConnError(k)
                 \/ CtrlLinkStep(Controllers)
                 \/ CtrlUnmount(2))

SpecBroadcast == InitRemote /\ [][NextBroadcast]_vars

\* The Player alone, on the hls.js path or the native HLS path: the viewer
\* loads the playlist and selects channels, the engine and the video element
\* report, no remote session is started.
InitPlayerOnly ==
  /\ Init
  /\ engine.kind \in {"hls", "native"}
  /\ storedSessionId = ""
  /\ paramSessionId = [c \in Controllers |-> "AB12CD"]

NextPlayer ==
  \/ Op("microtask", Microtask)
  \/ /\ rejecting = {}
     /\ \/ Op("select", SelectStep)
        \/ Op("other", (channels = <<>> /\ LoadPlaylist) \/ PlayerStep)

SpecPlayer == InitPlayerOnly /\ [][NextPlayer]_vars

\* The volume of the Player, on the hls.js path or the native HLS path: the
\* viewer selects channels, sets the volume, mutes and unmutes, the sources
\* report their metadata.
NextVolume ==
  \/ Op("microtask", Microtask)
  \/ /\ rejecting = {}
     /\ \/ Op("select", SelectStep)
        \/ Op("set-volume", \E v \in VolumeInputs :
                               OnPlayer(PlayerMounted /\ SetVolumeLevel(v)))
        \/ Op("toggle-mute", OnPlayer(PlayerMounted /\ ToggleMute))
        \/ Op("loadedmetadata", \E d \in 0..MaxTime : OnPlayer(VideoLoadedMetadata(d)))
        \/ Op("volume-up", OnPlayer(PlayerMounted /\ ChangeVolumeBy(1)))
        \/ Op("volume-down", OnPlayer(PlayerMounted /\ ChangeVolumeBy(-1)))
        \/ Op("other", \/ channels = <<>> /\ LoadPlaylist
                       \/ OnPlayer(VideoVolumeChange)
                       \/ OnPlayer(VideoPlayPauseEvent))

SpecVolume == InitPlayerOnly /\ [][NextVolume]_vars

\* The channel navigator on the host: the playlist is loaded and refreshed, the
\* viewer selects from the displayed list, steps forward and back, and changes
\* the search text and the category.
NextNav ==
  \/ Op("select", SelectStep)
  \/ Op("next", NextChannel)
  \/ Op("prev", PrevChannel)
  \/ Op("filter", \/ \E s \in SearchTerms : SetSearchTerm(s)
                  \/ \E g \in Categories : SetSelectedCategory(g))
  \/ Op("other", LoadPlaylist)

SpecNav == InitRemote /\ [][NextNav]_vars

\* The hls.js engine of the Player: sources are loaded and played, the engine
\* reports fatal and non-fatal errors of every kind.
NextEngine ==
  \/ Op("microtask", Microtask)
  \/ /\ rejecting = {}
     /\ \/ Op("select", SelectStep)
        \/ Op("fatal-other", OnPlayer(HlsError(TRUE, "other")))
        \/ Op("fatal-network", OnPlayer(HlsError(TRUE, "network")))
        \/ Op("other", \/ channels = <<>> /\ LoadPlaylist
                       \/ OnPlayer(HlsManifestParsed)
                       \/ OnPlayer(PlayerMounted /\ TogglePlayPause)
                       \/ OnPlayer(PlayResolved)
                       \/ OnPlayer(VideoPlayPauseEvent)
                       \/ OnPlayer(VideoWaiting)
                       \/ OnPlayer(HlsError(TRUE, "media"))
                       \/ \E kind \in ErrorKinds : OnPlayer(HlsError(FALSE, kind)))

SpecEngine == InitRemote /\ [][NextEngine]_vars

\* The life of the remote session on the host, with two controllers: the
\* viewer opens and closes the panel, starts and stops the session, the
\* listener opens or fails, the page is left and mounted again; controllers
\* connect, reconnect and go away, connections close and fail.
InitSession ==
  /\ Init
  /\ engine.kind = "hls"
  /\ paramSessionId = [c \in Controllers |-> "AB12CD"]

NextSession ==
  \/ Op("auto-start", AutoStart)
  \/ /\ ~AutoStartPending
     /\ \/ Op("start", StartSession \/ StartAgain)
        \/ Op("stop", StopSession)
        \/ Op("peer-open", HostPeerOpen)
        \/ Op("peer-error", HostPeerError)
        \/ Op("unmount", HostRemount)
        \/ Op("other", \/ channels = <<>> /\ LoadPlaylist
                       \/ ShowRemote
                       \/ CloseRemote
                       \/ \E k \in ConnIds, openNow \in BOOLEAN : HostOnConnection(k, openNow)
                       \/ \E k \in ConnIds : HostConnOpen(k)
                       \/ CtrlLinkStep({1})
                       \/ \E k \in ConnIds : CtrlOnClose(k))

SpecSession == InitSession /\ [][NextSession]_vars

\* Two controllers on a running session: both connect, their connections
\* close (the controller's page is left) or fail.
NextCleanup ==
  \/ Op("conn-close", \E k \in ConnIds : HostOnClose(k))
  \/ Op("conn-error", \E k \in ConnIds : HostOnConnError(k))
  \/ Op("other", \/ channels = <<>> /\ LoadPlaylist
                 \/ ShowRemote
                 \/ HostPeerOpen
                 \/ \E k \in ConnIds, openNow \in BOOLEAN : HostOnConnection(k, openNow)
                 \/ \E k \in ConnIds : HostConnOpen(k)
                 \/ RemoteReadyStep
                 \/ CtrlLinkStep(Controllers)
                 \/ \E c \in Controllers : CtrlUnmount(c))

SpecCleanup == InitRemote /\ [][NextCleanup]_vars

\* One controller and its connections: it connects when its peer opens and
\* again from the Connect button, its connection opens, fails, or is closed
\* by a host whose listener fails.
NextController ==
  \/ Op("connect", \E id \in SessionIds : CtrlConnect(1, id))
  \/ Op("other", \/ channels = <<>> /\ LoadPlaylist
                 \/ ShowRemote
                 \/ HostPeerOpen
                 \/ HostPeerError
                 \/ \E k \in ConnIds, openNow \in BOOLEAN : HostOnConnection(k, openNow)
                 \/ \E k \in ConnIds : HostConnOpen(k)
                 \/ \E k \in ConnIds : HostOnClose(k)
                 \/ CtrlLinkStep({1})
                 \/ \E k \in ConnIds : CtrlOnClose(k)
                 \/ \E k \in ConnIds : CtrlOnError(k))

SpecController == InitRemote /\ [][NextController]_vars

\* One controller connecting to a session with nothing failing: PeerLink hands
\* every pending connection to the listener and opens it.
NextConnect ==
  \/ Op("connect", CtrlPeerOpen(1) \/ \E id \in SessionIds : CtrlConnect(1, id))
  \/ Op("conn-open", \E k \in ConnIds : CtrlOnOpen(k))
  \/ Op("incoming", \E k \in ConnIds, openNow \in BOOLEAN : HostOnConnection(k, openNow))
  \/ Op("other", \/ channels = <<>> /\ LoadPlaylist
                 \/ ShowRemote
                 \/ HostPeerOpen
                 \/ \E k \in ConnIds : HostConnOpen(k)
                 \/ \E k \in ConnIds : HostOnClose(k)
                 \/ RemoteReadyStep
                 \/ \E k \in ConnIds : CtrlOnData(k))

SpecConnect ==
  /\ InitRemote
  /\ [][NextConnect]_vars
  /\ WF_vars(Op("incoming", \E k \in ConnIds, openNow \in BOOLEAN : HostOnConnection(k, openNow)))
  /\ WF_vars(Op("conn-open", \E k \in ConnIds : CtrlOnOpen(k)))

\* One controller and what it shows: the viewer zaps forward and mutes while
\* the session runs, the controller connects, receives snapshots, and loses
\* its connection when the listener of the host fails.
NextView ==
  \/ Op("ctrl-data", \E k \in ConnIds : CtrlOnData(k))
  \/ Op("ctrl-close", \E k \in ConnIds : CtrlOnClose(k))
  \/ Op("other", \/ channels = <<>> /\ LoadPlaylist
                 \/ remotePeer # NoPeer /\ NextChannel
                 \/ remotePeer # NoPeer /\ ~player.isMuted
                      /\ OnPlayer(PlayerMounted /\ ToggleMute)
                 \/ ShowRemote
                 \/ HostPeerOpen
                 \/ HostPeerError
                 \/ \E k \in ConnIds, openNow \in BOOLEAN : HostOnConnection(k, openNow)
                 \/ \E k \in ConnIds : HostConnOpen(k)
                 \/ RemoteReadyStep
                 \/ CtrlPeerOpen(1)
                 \/ \E k \in ConnIds : CtrlOnOpen(k))

SpecView == InitRemote /\ [][NextView]_vars

\* Command messages of any shape on a running session: one peer connects and
\* sends known and unknown commands, with and without a value, the host
\* handles them.
NextWire ==
  \/ Op("command", \E k \in ConnIds : HostOnCommand(k))
  \/ Op("other", \/ channels = <<>> /\ LoadPlaylist
                 \/ ShowRemote
                 \/ HostPeerOpen
                 \/ \E k \in ConnIds, openNow \in BOOLEAN : HostOnConnection(k, openNow)
                 \/ \E k \in ConnIds : HostConnOpen(k)
                 \/ RemoteReadyStep
                 \/ CtrlLinkStep({1})
                 \/ \E k \in ConnIds, command \in WireCommands, payload \in WirePayloads :
                      PeerSendsCommand(k, command, payload))

SpecWire == InitRemote /\ [][NextWire]_vars

\* Session codes in either letter case: the remote page is opened on /remote,
\* /remote/AB12CD or /remote/ab12cd, the user types a code in either case or
\* leaves the field as it is and presses Connect; the host runs its session.
InitCase ==
  /\ Init
  /\ engine.kind = "hls"
  /\ storedSessionId = ""
  /\ paramSessionId[2] = "AB12CD"

NextCase ==
  \/ Op("connect", \/ CtrlPeerOpen(1)
                   \/ \E typed \in TypedCodes : CtrlConnect(1, ToUpperCase(typed))
                   \/ CtrlConnect(1, paramSessionId[1]))
  \/ Op("peer-error", CtrlPeerError(1, FALSE))
  \/ Op("other", \/ channels = <<>> /\ LoadPlaylist
                 \/ ShowRemote
                 \/ HostPeerOpen
                 \/ \E k \in ConnIds, openNow \in BOOLEAN : HostOnConnection(k, openNow)
                 \/ \E k \in ConnIds : HostConnOpen(k)
                 \/ \E k \in ConnIds : HostOnClose(k)
                 \/ RemoteReadyStep
                 \/ \E k \in ConnIds : CtrlOnOpen(k)
                 \/ \E k \in ConnIds : CtrlOnData(k))

SpecCase == InitCase /\ [][NextCase]_vars

\* One controller, its connections and its own peer: it connects when its peer
\* opens and again from the Connect button; connections open, deliver
\* snapshots, fail, or are closed by a host whose listener fails; the peer of
\* the controller reports errors, fatal ones included.
NextLink ==
  \/ Op("connect", \E id \in SessionIds : CtrlConnect(1, id))
  \/ Op("ctrl-data", \E k \in ConnIds : CtrlOnData(k))
  \/ Op("ctrl-close", \E k \in ConnIds : CtrlOnClose(k))
  \/ Op("ctrl-error", \E k \in ConnIds : CtrlOnError(k))
  \/ Op("peer-error", \E fatal \in BOOLEAN : CtrlPeerError(1, fatal))
  \/ Op("other", \/ channels = <<>> /\ LoadPlaylist
                 \/ ShowRemote
                 \/ HostPeerOpen
                 \/ HostPeerError
                 \/ \E k \in ConnIds, openNow \in BOOLEAN : HostOnConnection(k, openNow)
                 \/ \E k \in ConnIds : HostConnOpen(k)
                 \/ RemoteReadyStep
                 \/ CtrlPeerOpen(1)
                 \/ \E k \in ConnIds : CtrlOnOpen(k))

SpecLink == InitRemote /\ [][NextLink]_vars

\* Play and pause on the Player alone: the viewer selects a channel and
\* toggles playback, the video element reports play and pause.
NextToggle ==
  \/ Op("microtask", Microtask)
  \/ /\ rejecting = {}
     /\ \/ Op("toggle-play", OnPlayer(PlayerMounted /\ TogglePlayPause))
        \/ Op("play-pause-event", OnPlayer(VideoPlayPauseEvent))
        \/ Op("other", \/ channels = <<>> /\ LoadPlaylist
                       \/ SelectStep
                       \/ OnPlayer(HlsManifestParsed)
                       \/ OnPlayer(PlayResolved)
                       \/ OnPlayer(PlayerMounted /\ StopPlayback))

SpecToggle == InitPlayerOnly /\ [][NextToggle]_vars

\* ------------------------------------------------------------ properties
\* the host takes a command of kind `command` off connection k in this step
HostTakesCommand(k, command) ==
  /\ conns[k].host = "open"
  /\ toHost[k] # <<>>
  /\ Head(toHost[k]).type = "command"
  /\ Head(toHost[k]).command = command
  /\ toHost'[k] = Tail(toHost[k])

\* the host takes remote-ready off connection k in this step
HostTakesRemoteReady(k) ==
  /\ conns[k].host = "open"
  /\ toHost[k] # <<>>
  /\ Head(toHost[k]).type = "remote-ready"
  /\ toHost'[k] = Tail(toHost[k])

\* a state message is put on connection k in this step
StateSent(k) ==
  /\ Len(toCtrl'[k]) = Len(toCtrl[k]) + 1
  /\ SubSeq(toCtrl'[k], 1, Len(toCtrl[k])) = toCtrl[k]
  /\ toCtrl'[k][Len(toCtrl'[k])].type = "state"

LastSent(k) == toCtrl'[k][Len(toCtrl'[k])]

\* C1: a delivered `next` command moves the selection one step from the
\* selection the previous command left: with the selected channel at index i
\* of the FilteredView and i not the last index, the selection afterwards is
\* the channel at index i+1 (so k delivered commands end at index i+k).
C1_NextAppliedInOrder ==
  [][\A k \in ConnIds :
       LET i == GetCurrentChannelIndex(Filtered, selectedChannel)
       IN  (HostTakesCommand(k, "next") /\ i >= 0 /\ i < Len(Filtered) - 1)
             => selectedChannel' = Filtered[i + 2]]_vars

\* C2: every state message the host sends carries the host's selected channel,
\* player state and nav flags as they are at the moment of sending.
C2_StateMessageIsCurrent ==
  [][\A k \in ConnIds : StateSent(k) => LastSent(k).payload = Snapshot']_vars

\* C3: over one connection the host never sends a snapshot of an older host
\* state after a snapshot of a newer one.
C3_SnapshotsMonotonic ==
  [][\A k \in ConnIds : StateSent(k) => LastSent(k).ver >= sentVer[k]]_vars

\* a controller is connected and nothing is in flight or pending that could
\* still change the host's snapshot or the controller's view
Quiescent(c) ==
  LET k == connectionRef[c]
  IN  /\ connectionStatus[c] = "connected"
      /\ k # 0
      /\ conns[k].cli = "open" /\ conns[k].host = "open"
      /\ k \in Range(remoteConnections)
      /\ toCtrl[k] = <<>> /\ toHost[k] = <<>>
      /\ videoEvents = <<>> /\ rejecting = {}

\* C4: once a controller is connected and the host's state has stopped changing
\* (nothing is in flight), the controller's view equals the host's snapshot.
C4_QuiescentViewIsCurrent ==
  \A c \in Controllers : Quiescent(c) => hostState[c] = Snapshot

\* C5: for every change of the host's snapshot, each connection that is
\* registered and open gets exactly one state message, carrying the new
\* snapshot; every other connection (closed, failed, not yet open) gets none.
C5_BroadcastExactlyOnce ==
  [][Snapshot' # Snapshot =>
       \A k \in ConnIds :
         IF k \in Range(remoteConnections) /\ conns[k].host = "open"
         THEN StateSent(k) /\ LastSent(k).payload = Snapshot'
         ELSE toCtrl'[k] = toCtrl[k]]_vars

\* a broadcast of the current snapshot has reached the first controller while
\* the second controller's connection, once registered, is gone
C5_Witness ==
  \E k, j \in ConnIds :
    /\ conns[k].ctrl = 1 /\ conns[j].ctrl = 2
    /\ k \in Range(remoteConnections) /\ conns[k].host = "open"
    /\ j \notin Range(remoteConnections) /\ conns[j].host \in {"open", "closed"}
    /\ sentVer[j] >= 0 /\ sentVer[j] < ver
    /\ sentVer[k] = ver
    /\ toCtrl[k] # <<>> /\ toCtrl[k][Len(toCtrl[k])].payload = Snapshot

\* C6: on remote-ready from a controller the host sends exactly one state
\* message on that controller's connection and nothing on any other.
C6_RemoteReadyRepliesToSenderOnly ==
  [][\A k \in ConnIds :
       HostTakesRemoteReady(k) =>
         /\ StateSent(k)
         /\ \A j \in ConnIds \ {k} : toCtrl'[j] = toCtrl[j]]_vars

\* the reply to remote-ready is on one controller's connection while the other
\* controller, registered and open, has never been sent anything
C6_Witness ==
  \E k, j \in ConnIds :
    /\ k # j
    /\ lastOp = "remote-ready"
    /\ toCtrl[k] # <<>> /\ sentVer[k] >= 0
    /\ j \in Range(remoteConnections) /\ conns[j].host = "open"
    /\ sentVer[j] = -1 /\ toCtrl[j] = <<>>

\* C7: once selectChannel has replaced the source, the outcome of a play()
\* attempt made for the previous source changes no PlayerState field.
C7_LateCallbackIgnored ==
  [][(rejecting \cap {"auto-prev", "toggle-prev"} # {} /\ rejecting' = {})
       => player' = player]_vars

\* C8: at most one engine instance is live, and on the native-HLS path no
\* listener registered for a previous source is still registered (one
\* loadedmetadata listener at most, the current source's).
C8_PreviousEngineReleased ==
  /\ engine.live <= 1
  /\ engine.kind = "native" => engine.listeners <= 1

\* C9: right after selectChannel, from any state and also on the channel that
\* is already selected, error is none and isLoading is true.
C9_SelectClearsErrorAndLoads ==
  lastOp = "select" => (player.error = NoError /\ player.isLoading)

\* C10: a selectChannel that switches to another channel leaves currentTime 0
\* and duration 0, before any event of the new source.
C10_SelectResetsTimes ==
  [][(lastOp' = "select" /\ selectedChannel' # selectedChannel)
       => (player'.currentTime = 0 /\ player'.duration = 0)]_vars

C12_SetVolumeClamps ==
  PlayerMounted =>
    \A v \in VolumeInputs :
      LET r == VolumeLevelSet(video, player, v).player
      IN  /\ r.volume = (IF v < 0 THEN 0 ELSE IF v > 10 THEN 10 ELSE v)
          /\ r.isMuted = (r.volume = 0)

\* setVolume has run with an input of 0 or less: the volume is 0, the player
\* muted, and the host has the report
C12_Witness ==
  /\ lastOp = "set-volume"
  /\ player.volume = 0 /\ player.isMuted
  /\ video.volume = 0 /\ video.muted
  /\ playerState.volume = 0 /\ playerState.isMuted

\* the PlayerState after toggleMute applied twice
MuteToggledTwice ==
  LET once == MuteToggled(video, player)
  IN  MuteToggled(once.video, once.player)

\* C13 as stated: toggleMute applied twice in a row restores the state before
\* the first application, from every state.
C13_ToggleMuteTwiceRestores ==
  PlayerMounted =>
    (MuteToggledTwice.player = player /\ MuteToggledTwice.video = video)

\* C13 amended: toggleMute applied twice restores the state unless the player
\* is muted at stored volume 0; from there the unmute sets the volume to 0.5
\* with isMuted false, and the second application mutes at 0.5.
C13_ToggleMuteTwiceRestoresAudible ==
  PlayerMounted =>
    LET once == MuteToggled(video, player)
    IN  IF player.isMuted /\ player.volume = 0
        THEN /\ once.player.volume = 5 /\ ~once.player.isMuted
             /\ MuteToggledTwice.player.volume = 5 /\ MuteToggledTwice.player.isMuted
        ELSE /\ MuteToggledTwice.player = player /\ MuteToggledTwice.video = video
             /\ ~player.isMuted => once.player.isMuted
             /\ once.player.volume = player.volume

\* toggleMute has unmuted a player whose volume is the 0.5 default
C13_Witness ==
  /\ lastOp = "toggle-mute"
  /\ ~player.isMuted /\ player.volume = 5
  /\ ~video.muted /\ video.volume = 5

\* the positions of the selected channel's url in the FilteredView
AnchorPositions == {i \in 1..Len(Filtered) : Filtered[i].url = selectedChannel.url}

\* C14: next() sets the selection to the element of the current FilteredView
\* right after the anchor's position and prev() to the one right before it;
\* next() at the last element and prev() at the first change nothing.
C14_NextPrevStayAdjacent ==
  [][/\ lastOp' = "next" =>
          IF \E i \in AnchorPositions : i < Len(Filtered)
          THEN \E i \in AnchorPositions : selectedChannel' = Filtered[i + 1]
          ELSE selectedChannel' = selectedChannel
     /\ lastOp' = "prev" =>
          IF \E i \in AnchorPositions : i > 1
          THEN \E i \in AnchorPositions : selectedChannel' = Filtered[i - 1]
          ELSE selectedChannel' = selectedChannel]_vars

\* next() has run at the last element of a filtered view of two channels
\* (category G1) and left the selection there
C14_Witness ==
  /\ lastOp = "next"
  /\ selectedCategory = "G1"
  /\ Len(Filtered) = 2
  /\ selectedChannel = Filtered[2]

\* C15: while the selected channel's url is not in the FilteredView, hasNext()
\* and hasPrev() are false and next() and prev() leave the selection unchanged.
C15_AbsentAnchorNoOp ==
  [][AnchorPositions = {} =>
       /\ ~HasNextChannel(Filtered, selectedChannel)
       /\ ~HasPrevChannel(Filtered, selectedChannel)
       /\ lastOp' \in {"next", "prev"} => selectedChannel' = selectedChannel]_vars

\* next() has run while the selected channel was filtered out of a non-empty view
C15_Witness ==
  /\ lastOp = "next"
  /\ selectedChannel # NoChannel
  /\ Filtered # <<>>
  /\ AnchorPositions = {}

\* C16: hasNext() is true exactly when next() changes the selection, hasPrev()
\* exactly when prev() does; with the list unfiltered and the second channel
\* selected both are true.
C16_HasNextIffNextMoves ==
  [][/\ lastOp' = "next" =>
          (HasNextChannel(Filtered, selectedChannel) <=> selectedChannel' # selectedChannel)
     /\ lastOp' = "prev" =>
          (HasPrevChannel(Filtered, selectedChannel) <=> selectedChannel' # selectedChannel)
     /\ (Filtered = Playlist /\ selectedChannel = Playlist[2]) =>
          (HasNextChannel(Filtered, selectedChannel) /\ HasPrevChannel(Filtered, selectedChannel))]_vars

\* next() has moved the selection to the last channel of the unfiltered list,
\* where hasNext() is false and hasPrev() true
C16_Witness ==
  /\ lastOp = "next"
  /\ Filtered = Playlist
  /\ selectedChannel = Playlist[3]
  /\ ~HasNextChannel(Filtered, selectedChannel)
  /\ HasPrevChannel(Filtered, selectedChannel)

\* C17: a change of the search text or of the category leaves the selected
\* channel as it is; afterwards hasNext() and hasPrev() follow the position of
\* the selected channel's url in the recomputed FilteredView.
C17_FilterKeepsSelection ==
  [][lastOp' = "filter" =>
       /\ selectedChannel' = selectedChannel
       /\ HasNextChannel(Filtered, selectedChannel)'
            = (\E i \in AnchorPositions' : i < Len(Filtered'))
       /\ HasPrevChannel(Filtered, selectedChannel)'
            = (\E i \in AnchorPositions' : i > 1)]_vars

\* a filter change has moved the selected channel from the third position of
\* the list to the second position of the recomputed view
C17_Witness ==
  /\ lastOp = "filter"
  /\ selectedChannel = Playlist[3]
  /\ Len(Filtered) = 2
  /\ AnchorPositions = {2}

\* C18: a fatal engine error of a kind other than network or media leaves
\* error set to a message and isLoading false, and the engine instance released.
C18_FatalOtherErrors ==
  [][lastOp' = "fatal-other" =>
       /\ player'.error # NoError
       /\ ~player'.isLoading
       /\ ~HlsLive(engine') /\ engine'.live = 0]_vars

\* the fatal error has hit a playing source that had been reloaded once
C18_Witness ==
  /\ lastOp = "fatal-other"
  /\ player.error = "Failed to load video"
  /\ player.isPlaying
  /\ engine.hls = "destroyed" /\ engine.startLoads = 1

\* C19: a fatal network error while playing starts a reload of the same source
\* on the same engine instance and changes no PlayerState field.
C19_FatalNetworkReloads ==
  [][(lastOp' = "fatal-network" /\ player.isPlaying) =>
       /\ player' = player
       /\ engine'.startLoads = engine.startLoads + 1
       /\ HlsLive(engine') /\ engine'.live = engine.live
       /\ engine'.src = engine.src /\ engine'.hls = engine.hls]_vars

\* the reload has been started while playing, with no error shown
C19_Witness ==
  /\ lastOp = "fatal-network"
  /\ player.isPlaying /\ player.error = NoError
  /\ engine.hls = "ready" /\ engine.startLoads = 1

\* C20: a fatal network error that follows the reload started for the previous
\* one is not answered by another reload.
C20_SingleRetry ==
  [][(lastOp = "fatal-network" /\ lastOp' = "fatal-network")
       => engine'.startLoads = engine.startLoads]_vars

\* the fields of PlayerState
PlayerStateFields ==
  {"isPlaying", "isLoading", "volume", "isMuted", "error", "currentTime", "duration"}

\* C21: every step that changes a PlayerState field of the mounted Player
\* notifies the host of the new value: what the host holds of the Player's
\* state afterwards carries that field with the value the Player has.
C21_EveryMutationNotified ==
  [][\A f \in PlayerStateFields :
       (PlayerMounted' /\ player'[f] # player[f])
         => (f \in DOMAIN playerState' /\ playerState'[f] = player'[f])]_vars

C23_StartWhileReadyNoOp ==
  [][(lastOp' = "start" /\ remoteHostStatus = "ready") =>
       /\ remoteHostStatus' = "ready"
       /\ remoteSessionId' = remoteSessionId
       /\ storedSessionId' = storedSessionId
       /\ remotePeer' = remotePeer
       /\ remoteConnections' = remoteConnections
       /\ remoteConnectedClients' = remoteConnectedClients
       /\ conns' = conns]_vars

\* start() has been called on a live session with a registered controller
C23_Witness ==
  /\ lastOp = "start"
  /\ remoteHostStatus = "ready"
  /\ remotePeer.open
  /\ remoteConnections # <<>>
  /\ \E k \in Range(remoteConnections) : conns[k].host = "open"

\* the status changes of the host that the state diagram allows
StatusTransitions ==
  {<<"inactive", "connecting">>, <<"connecting", "ready">>, <<"connecting", "error">>,
   <<"ready", "error">>, <<"ready", "inactive">>, <<"error", "connecting">>}

\* C24: while the page stays mounted the host status changes only along
\* inactive -> connecting, connecting -> ready, connecting -> error,
\* ready -> error, ready -> inactive, and error -> connecting by start().
C24_StatusTransitions ==
  [][(remoteHostStatus' # remoteHostStatus /\ lastOp' # "unmount") =>
       /\ <<remoteHostStatus, remoteHostStatus'>> \in StatusTransitions
       /\ remoteHostStatus = "error" => lastOp' = "start"]_vars

\* C25: every listener is bound to the persisted session identifier, and an
\* identifier once persisted (before the first start, or generated by it) is
\* never replaced, over starts, stops, errors, restarts and remounts.
C25_OneSessionId ==
  [][/\ storedSessionId # "" => storedSessionId' = storedSessionId
     /\ remotePeer' # NoPeer =>
          (remotePeer'.id = storedSessionId' /\ remoteSessionId' = storedSessionId')]_vars

\* the session has been started again, on the identifier of the session that
\* a controller had been connected to
C25_Witness ==
  /\ lastOp = "start"
  /\ remotePeer # NoPeer /\ ~remotePeer.open
  /\ remoteHostStatus = "connecting"
  /\ \E k \in ConnIds : conns[k].host = "closed" /\ conns[k].target = remotePeer.id

\* the status a stop leaves: error from the listener's error handler, inactive
\* from the Stop button and from the unmount
StopTarget(op) == IF op = "peer-error" THEN "error" ELSE "inactive"

C27_ListenerErrorStops ==
  [][(lastOp' = "peer-error" /\ remoteHostStatus \in {"connecting", "ready"}) =>
       /\ remoteHostStatus' = "error"
       /\ remoteError' \notin {NoError, ""}
       /\ \A k \in ConnIds : conns'[k].host \notin {"pending", "open"}
       /\ remoteConnections' = <<>>
       /\ remotePeer' = NoPeer]_vars

\* the listener has failed on a live session with a connected controller
C27_Witness ==
  /\ lastOp = "peer-error"
  /\ remoteHostStatus = "error"
  /\ remoteError = "Unable to start remote session"
  /\ \E k \in ConnIds : conns[k].host = "closed" /\ conns[k].cli = "open"

\* C28: when a controller's connection closes or fails, that connection alone
\* leaves the registered set; the others stay registered, in their order and
\* as open as they were, and the host status, the selected channel and the
\* PlayerState are unchanged.
C28_CleanupRemovesOne ==
  [][lastOp' \in {"conn-close", "conn-error"} =>
       /\ \E k \in ConnIds :
            /\ lastOp' = "conn-close" => (conns[k].cli = "closed" /\ conns'[k].host = "closed")
            /\ lastOp' = "conn-error" => k \in Range(remoteConnections)
            /\ Range(remoteConnections') = Range(remoteConnections) \ {k}
            /\ \A j \in ConnIds \ {k} : conns'[j] = conns[j]
       /\ Len(remoteConnections') = Cardinality(Range(remoteConnections'))
       /\ remoteConnectedClients' = Len(remoteConnections')
       /\ remoteHostStatus' = remoteHostStatus
       /\ selectedChannel' = selectedChannel
       /\ player' = player
       /\ playerState' = playerState]_vars

\* one controller's connection has failed and left the set while the other
\* controller's connection is still registered and open
C28_Witness ==
  /\ lastOp = "conn-error"
  /\ remoteConnectedClients = 1
  /\ \E j, k \in ConnIds :
       /\ conns[j].ctrl # conns[k].ctrl
       /\ j \in Range(remoteConnections) /\ conns[j].host = "open"
       /\ k \notin Range(remoteConnections) /\ conns[k].host = "open"

\* the connections of controller c that are not closed
Outbound(c) == {k \in ConnIds : conns[k].ctrl = c /\ conns[k].cli \in {"pending", "open"}}

\* C29: a controller has at most one connection that is not closed.
C29_OneOutboundConnection ==
  \A c \in Controllers : Cardinality(Outbound(c)) <= 1

\* C30: connect(sessionId) leaves the controller connecting; the open of a
\* connection puts exactly one remote-ready on that connection and leaves the
\* controller connected; a pending connection to the identifier of a live
\* listener leads to connected, and connected is left only by a new connect.
C30_ConnectReachesConnected ==
  /\ [][/\ lastOp' = "connect" => connectionStatus'[1] = "connecting"
        /\ lastOp' = "conn-open" =>
             \E k \in ConnIds :
               /\ conns[k].cli = "pending" /\ conns'[k].cli = "open"
               /\ toHost'[k] = Append(toHost[k], [type |-> "remote-ready"])
               /\ \A j \in ConnIds \ {k} : toHost'[j] = toHost[j]
               /\ connectionStatus'[conns[k].ctrl] = "connected"
        /\ (connectionStatus[1] = "connected" /\ connectionStatus'[1] # "connected")
             => lastOp' = "connect"]_vars
  /\ \A k \in ConnIds :
       (/\ connectionRef[1] = k /\ conns[k].cli = "pending"
        /\ remotePeer.open /\ remotePeer.id = conns[k].target)
         ~> (connectionStatus[1] = "connected")

\* the controller is connected over its second connection and its remote-ready
\* is on the way
C30_Witness ==
  /\ lastOp = "conn-open"
  /\ connectionStatus[1] = "connected"
  /\ connectionRef[1] = 2
  /\ conns[2].cli = "open"
  /\ toHost[2] = <<[type |-> "remote-ready"]>>


\* the connection whose event the controller handles in this step, 0 if none:
\* a data event takes a message off its queue, a close event closes its
\* controller side
DataEventOf == IF \E k \in ConnIds : toCtrl'[k] # toCtrl[k]
               THEN CHOOSE k \in ConnIds : toCtrl'[k] # toCtrl[k] ELSE 0

CloseEventOf == IF \E k \in ConnIds : conns'[k].cli # conns[k].cli
                THEN CHOOSE k \in ConnIds : conns'[k].cli # conns[k].cli ELSE 0

\* C31: when the controller's connection closes, its status becomes
\* disconnected, the channel of its view becomes none and nav becomes
\* {hasNext: false, hasPrev: false}, and the player fields of the view keep
\* the values last received.
C31_CloseClearsChannelKeepsPlayer ==
  [][lastOp' = "ctrl-close" /\ CloseEventOf # 0 =>
       LET c == conns[CloseEventOf].ctrl
       IN  /\ connectionStatus'[c] = "disconnected"
           /\ hostState'[c].channel = NoChannel
           /\ hostState'[c].nav = [hasNext |-> FALSE, hasPrev |-> FALSE]
           /\ hostState'[c].player = hostState[c].player]_vars

\* a controller whose connection closed after it had shown a channel and a
\* muted player: the channel is gone, the muted player is still shown
C31_Witness ==
  /\ lastOp = "ctrl-close"
  /\ connectionStatus[1] = "disconnected"
  /\ hostState[1].channel = NoChannel
  /\ hostState[1].player.isMuted
  /\ hostState[1].player # InitHostState.player

\* C32: after the controller receives a state message, its view equals the
\* payload of that message in every field (channel.url, player.isPlaying,
\* player.volume, player.isMuted, nav.hasNext, nav.hasPrev); no field of the
\* previous view survives.
C32_ViewEqualsPayload ==
  [][lastOp' = "ctrl-data" /\ DataEventOf # 0 /\ Head(toCtrl[DataEventOf]).type = "state" =>
       LET c == conns[DataEventOf].ctrl
           payload == Head(toCtrl[DataEventOf]).payload
       IN  /\ hostState'[c].channel.url = payload.channel.url
           /\ hostState'[c].player.isPlaying = payload.player.isPlaying
           /\ hostState'[c].player.volume = payload.player.volume
           /\ hostState'[c].player.isMuted = payload.player.isMuted
           /\ hostState'[c].nav.hasNext = payload.nav.hasNext
           /\ hostState'[c].nav.hasPrev = payload.nav.hasPrev
           /\ DOMAIN hostState'[c] = DOMAIN payload]_vars

\* the controller has taken a second snapshot: its view shows the second
\* channel with a previous one, and the muted player
C32_Witness ==
  /\ lastOp = "ctrl-data"
  /\ hostState[1].channel.url = "b"
  /\ hostState[1].nav.hasPrev
  /\ hostState[1].player.isMuted



\* C33: a command message whose command is not one of the eight known values,
\* or a set-volume whose payload value is missing or is not a finite number, is
\* dropped: PlayerState, the selected channel and the host status are
\* unchanged and nothing is sent back.
C33_MalformedCommandDropped ==
  [][\A k \in ConnIds :
       /\ lastOp' = "command"
       /\ conns[k].host = "open" /\ toHost[k] # <<>> /\ toHost'[k] = Tail(toHost[k])
       /\ Head(toHost[k]).type = "command"
       /\ \/ Head(toHost[k]).command \notin Commands
          \/ /\ Head(toHost[k]).command = "set-volume"
             /\ Head(toHost[k]).payload.kind # "finite"
       => /\ playerState' = playerState
          /\ player' = player
          /\ video' = video
          /\ selectedChannel' = selectedChannel
          /\ remoteHostStatus' = remoteHostStatus
          /\ toCtrl' = toCtrl]_vars


\* C34: a controller that connects with a session code differing from the
\* identifier of the host only in letter case (ab12cd for AB12CD), typed in or
\* taken from the /remote/<sessionId> route, addresses that host: every
\* connection it creates towards such a code has the identifier of the host
\* as its target.
C34_CodeCaseInsensitive ==
  [][\A k \in ConnIds :
       /\ conns[k].cli = "none" /\ conns'[k].cli = "pending"
       /\ ToUpperCase(conns'[k].target) \in GeneratedIds
       => conns'[k].target \in GeneratedIds]_vars


\* C35: from either terminal controller status, disconnected or error (also
\* an error caused by a failure of the controller's own link), connect() with
\* the same identifier moves the controller to connecting.
C35_RetryFromTerminalStatus ==
  [][lastOp' = "connect" /\ connectionStatus[1] \in {"disconnected", "error"}
       => connectionStatus'[1] = "connecting"]_vars


\* the connection the controller currently holds is connecting or connected
HoldsLiveConnection(c) ==
  /\ connectionRef[c] # 0
  /\ conns[connectionRef[c]].cli \in {"pending", "open"}

\* C36: after connect() has superseded an earlier connection, a close, error
\* or data event of the superseded connection changes neither the status of
\* the controller nor its view while the newer connection is connecting or
\* connected. An event is one of another connection when it leaves the current
\* connection, its reference and its queue as they are.
C36_SupersededEventsIgnored ==
  [][/\ lastOp' \in {"ctrl-close", "ctrl-error", "ctrl-data"}
     /\ HoldsLiveConnection(1)
     /\ connectionRef'[1] = connectionRef[1]
     /\ conns'[connectionRef[1]] = conns[connectionRef[1]]
     /\ toCtrl'[connectionRef[1]] = toCtrl[connectionRef[1]]
     => /\ connectionStatus'[1] = connectionStatus[1]
        /\ hostState'[1] = hostState[1]]_vars

\* C38: the status of the controller is connected exactly when it holds an
\* open connection: connected implies that the current connection reference
\* is set and open, and an open current connection implies connected.
C38_ConnectedIffOpen ==
  /\ connectionStatus[1] = "connected" =>
       connectionRef[1] # 0 /\ conns[connectionRef[1]].cli = "open"
  /\ (connectionRef[1] # 0 /\ conns[connectionRef[1]].cli = "open") =>
       connectionStatus[1] = "connected"


\* C37: after an explicit stop() with target inactive the session is inactive
\* with no listener, and it stays so until the user starts sharing again (the
\* Start button, or opening the panel): nothing else takes the status out of
\* inactive, also while the remote-control panel is still shown.
C37_StoppedStaysInactive ==
  [][/\ lastOp' = "stop" => remoteHostStatus' = "inactive" /\ remotePeer' = NoPeer
     /\ remoteHostStatus = "inactive" /\ remoteHostStatus' # "inactive"
          => lastOp' = "start" \/ (~showRemote /\ showRemote')]_vars


\* C39: two toggle-play commands applied one directly after the other, before
\* any play or pause event of the video element is processed in between,
\* return playback to its original Playing/Paused state, because each
\* togglePlayPause acts on the playback state the previous command left:
\* right after a toggle-play, the isPlaying that the next togglePlayPause
\* reads is the playback state of the video element (a second toggle that
\* reads anything else repeats play() or pause() instead of undoing it).
C39_ToggleReadsPlaybackLeft ==
  lastOp = "toggle-play" => (player.isPlaying <=> ~video.paused)


\* C40: after any sequence of set-volume, volume-up, volume-down and
\* toggle-mute commands and channel switches the stored volume stays within
\* [0, 1] (0..10 tenths); volume-up and volume-down change it by 0.1 clamped
\* to the bounds, volume-up at 1 leaves it at 1, and volume-down reaching 0
\* leaves it at 0 with isMuted = true.
C40_VolumeWithinBounds ==
  /\ [](player.volume \in 0..10 /\ video.volume \in 0..10)
  /\ [][/\ lastOp' = "volume-up" =>
            player'.volume = (IF player.volume = 10 THEN 10 ELSE player.volume + 1)
        /\ lastOp' = "volume-down" =>
            /\ player'.volume = (IF player.volume = 0 THEN 0 ELSE player.volume - 1)
            /\ player'.volume = 0 => player'.isMuted]_vars

\* volume-down has taken the volume to 0 and muted the player
C40_Witness ==
  /\ lastOp = "volume-down"
  /\ player.volume = 0
  /\ video.volume = 0
  /\ player.isMuted

====
